---- MODULE Spec2Model ----
(***************************************************************************)
(* web-indexer: the traversal/generation engine (Indexer.Generate), the    *)
(* local filesystem backend's Read, configuration validation and New.      *)
(*                                                                         *)
(* Strings that the code takes apart (paths, names) are sequences of       *)
(* one-character strings, so that TrimPrefix, HasPrefix, HasSuffix and     *)
(* filepath.Join act on characters as they do in Go.  Strings the code     *)
(* only compares for equality (sort_by, order) are TLA+ strings.           *)
(***************************************************************************)
EXTENDS Integers, Sequences, FiniteSets, TLC

VARIABLES
    cfg,        \* Indexer.Cfg (Config)
    harness,    \* "main": built by New from the command line; "test": Indexer literal with a mock source
    tree,       \* the source directory tree under Cfg.Source (set of entries)
    phase,      \* position of the caller: "new", "ready", "running", "exit"
    source,     \* Indexer.Source: "none", "local", "mock"
    target,     \* Indexer.Target: "none", "set"
    stack,      \* call stack of Generate activations
    calls,      \* backend operations issued so far, in order
    newErr,     \* error returned by New ("" when nil)
    result,     \* value returned by the top-level Generate: "none", "nil", "err"
    fnIn,       \* arguments of the function or method a caller applies on its own (sort, data, Write)
    fnOut,      \* what that application returned
    store       \* the target storage: files of the target directory, objects of the target bucket

vars == <<cfg, harness, tree, phase, source, target, stack, calls, newErr, result, fnIn, fnOut, store>>

----------------------------------------------------------------------------
(* Bounds *)

\* largest number of entries (files and directories) below the source root
MaxEntries == 5

\* deepest directory level at which the mock source still answers with a subdirectory
MaxMockDepth == 2

----------------------------------------------------------------------------
(* strings *)

\* byte value of a character, for Go's string comparison
Ord(c) ==
    CASE c = " " -> 32 [] c = "." -> 46 [] c = "/" -> 47
      [] c = "0" -> 48 [] c = "1" -> 49 [] c = "2" -> 50 [] c = "3" -> 51
      [] c = "4" -> 52 [] c = "5" -> 53 [] c = "6" -> 54 [] c = "7" -> 55
      [] c = "8" -> 56 [] c = "9" -> 57 [] c = "B" -> 66
      [] c = "a" -> 97 [] c = "b" -> 98 [] c = "f" -> 102 [] c = "i" -> 105
      [] c = "n" -> 110 [] c = "p" -> 112 [] c = "t" -> 116 [] c = "x" -> 120
      [] OTHER -> 127

\* Go's s < t on strings: bytewise lexicographic
RECURSIVE StrLess(_, _)
StrLess(s, t) ==
    IF t = <<>> THEN FALSE
    ELSE IF s = <<>> THEN TRUE
    ELSE IF Head(s) = Head(t) THEN StrLess(Tail(s), Tail(t))
    ELSE Ord(Head(s)) < Ord(Head(t))

HasPrefix(s, p) == Len(s) >= Len(p) /\ SubSeq(s, 1, Len(p)) = p

HasSuffix(s, p) == Len(s) >= Len(p) /\ SubSeq(s, Len(s) - Len(p) + 1, Len(s)) = p

TrimPrefix(s, p) == IF HasPrefix(s, p) THEN SubSeq(s, Len(p) + 1, Len(s)) ELSE s

TrimSuffix(s, p) == IF HasSuffix(s, p) THEN SubSeq(s, 1, Len(s) - Len(p)) ELSE s

contains(arr, str) == \E k \in 1..Len(arr) : arr[k] = str

\* index of the first "/" of s at or after position k, 0 if none
RECURSIVE FirstSlash(_, _)
FirstSlash(s, k) == IF k > Len(s) THEN 0 ELSE IF s[k] = "/" THEN k ELSE FirstSlash(s, k + 1)

S3Scheme == <<"s", "3", ":", "/", "/">>

isS3URI(uri) == HasPrefix(uri, S3Scheme)

\* uriToBucketAndPrefix: the bucket, and what follows its first slash
uriToBucketAndPrefix(uri) ==
    LET u == TrimPrefix(uri, S3Scheme)
        k == FirstSlash(u, 1)
    IN IF k = 0 THEN <<u, <<>>>> ELSE <<SubSeq(u, 1, k - 1), SubSeq(u, k + 1, Len(u))>>

\* path.Clean / filepath.Clean for paths without "." and ".." elements:
\* runs of slashes collapse, a trailing slash goes unless the path is the
\* root, the empty path becomes "."
RECURSIVE Squeeze(_)
Squeeze(s) ==
    IF Len(s) < 2 THEN s
    ELSE IF s[1] = "/" /\ s[2] = "/" THEN Squeeze(Tail(s))
    ELSE <<s[1]>> \o Squeeze(Tail(s))

Clean(s) ==
    LET q == Squeeze(s) IN
    IF q = <<>> THEN <<".">>
    ELSE IF Len(q) > 1 /\ q[Len(q)] = "/" THEN SubSeq(q, 1, Len(q) - 1)
    ELSE q

\* filepath.Join(a, b): empty elements are ignored, the rest joined by "/" and cleaned
Join(a, b) ==
    IF a = <<>> /\ b = <<>> THEN <<>>
    ELSE IF a = <<>> THEN Clean(b)
    ELSE IF b = <<>> THEN Clean(a)
    ELSE Clean(a \o <<"/">> \o b)

\* filepath.Abs of a path that is already absolute
Abs(p) == Clean(p)

----------------------------------------------------------------------------
(* Config *)

SortByValue(c) ==
    CASE c.SortBy = "last_modified" -> "date"
      [] c.SortBy = "name"          -> "name"
      [] c.SortBy = "natural_name"  -> "natural_name"
      [] OTHER                      -> ""

OrderByValue(c) ==
    CASE c.Order = "asc"  -> "asc"
      [] c.Order = "desc" -> "desc"
      [] OTHER            -> ""

\* Validate with one of its checks left out
ValidateNoOrder(c) ==
    IF c.Source = <<>> THEN "source is required"
    ELSE IF c.Target = <<>> THEN "target is required"
    ELSE IF SortByValue(c) = "" THEN "sort_by must be one of: last_modified, name, natural_name"
    ELSE ""

\* Config.Validate: the error message, "" for nil
Validate(c) ==
    IF c.Source = <<>> THEN "source is required"
    ELSE IF c.Target = <<>> THEN "target is required"
    ELSE IF SortByValue(c) = "" THEN "sort_by must be one of: last_modified, name, natural_name"
    ELSE IF OrderByValue(c) = "" THEN "order must be one of: asc, desc"
    ELSE ""

----------------------------------------------------------------------------
(* the source tree *)

Na == <<"a">>
Nb == <<"b">>
Nf == <<"f">>
Nn == <<"n">>
Ni == <<"i">>

Entry(p, d, sz, mt) == [path |-> p, isDir |-> d, size |-> sz, mtime |-> mt]

\* the entries a source tree may be made of: path below the source root
\* (a sequence of names), kind, size in bytes, modification time
Universe ==
    { Entry(<<Nf>>, FALSE, 4, 3),
      Entry(<<Nn>>, FALSE, 0, 1),
      Entry(<<Ni>>, FALSE, 12, 2),
      Entry(<<Na>>, TRUE, 2048, 5),
      Entry(<<Nb>>, TRUE, 2048, 4),
      Entry(<<Na, Nf>>, FALSE, 7, 12),
      Entry(<<Na, Nn>>, FALSE, 0, 1),
      Entry(<<Na, Na>>, TRUE, 2048, 6),
      Entry(<<Nb, Nf>>, FALSE, 9, 10),
      Entry(<<Na, Na, Nf>>, FALSE, 3, 7) }

Front(s) == SubSeq(s, 1, Len(s) - 1)

Last(s) == s[Len(s)]

\* every entry below the root lies in a directory of the tree
WellFormed(t) ==
    \A e \in t : Len(e.path) > 1 =>
        \E d \in t : d.isDir /\ d.path = Front(e.path)

Trees == { t \in SUBSET Universe : Cardinality(t) <= MaxEntries /\ WellFormed(t) }

\* the path string of the directory rel (names below the root) of a tree rooted at root
RECURSIVE AbsPath(_, _)
AbsPath(root, rel) ==
    IF rel = <<>> THEN root ELSE Join(AbsPath(root, Front(rel)), Last(rel))

\* the directories of the tree, the root included, as name sequences
DirsOf(t) == {<<>>} \cup { e.path : e \in { x \in t : x.isDir } }

\* the directories a path string names
Lookup(t, root, p) == { d \in DirsOf(t) : AbsPath(root, d) = p }

\* os.ReadDir: the entries of a directory, sorted by filename
RECURSIVE SortByFilename(_)
SortByFilename(es) ==
    IF es = {} THEN <<>>
    ELSE LET m == CHOOSE e \in es : \A o \in es : o = e \/ StrLess(Last(e.path), Last(o.path))
         IN <<m>> \o SortByFilename(es \ {m})

ReadDir(t, d) == SortByFilename({ e \in t : Len(e.path) = Len(d) + 1 /\ Front(e.path) = d })

----------------------------------------------------------------------------
(* formatting *)

Digit(n) == CASE n = 0 -> "0" [] n = 1 -> "1" [] n = 2 -> "2" [] n = 3 -> "3"
              [] n = 4 -> "4" [] n = 5 -> "5" [] n = 6 -> "6" [] n = 7 -> "7"
              [] n = 8 -> "8" [] OTHER -> "9"

\* fmt's %d of a natural number
RECURSIVE Itoa(_)
Itoa(n) == IF n < 10 THEN <<Digit(n)>> ELSE Itoa(n \div 10) \o <<Digit(n % 10)>>

\* humanizeBytes, for sizes below 1024*1024 (units B and KB)
humanizeBytes(bytes) ==
    IF bytes < 10 THEN Itoa(bytes) \o <<" ", "B">>
    ELSE LET unit == IF bytes < 1024 THEN 1 ELSE 1024
             hundredths == (bytes * 200 + unit) \div (2 * unit)
             frac == hundredths % 100
         IN Itoa(hundredths \div 100) \o <<".">> \o <<Digit(frac \div 10), Digit(frac % 10)>>
            \o (IF unit = 1 THEN <<" ", "B">> ELSE <<" ", "K", "B">>)

\* time.Format with a two-digit layout: the modification time as two digits
FormatTime(t) == <<Digit((t \div 10) % 10), Digit(t % 10)>>

----------------------------------------------------------------------------
(* LocalBackend.Read *)

Item(n, sz, lm, d) == [Name |-> n, Size |-> sz, LastModified |-> lm, IsDir |-> d, URL |-> <<>>]

\* shouldSkip(name, index, skips)
shouldSkip(name, index, skips) == HasSuffix(name, index) \/ contains(skips, name)

\* the marker test of both loops of Read: a non-directory entry named in NoIndexFiles
IsMarker(c, e) == ~e.isDir /\ Len(c.NoIndexFiles) > 0 /\ contains(c.NoIndexFiles, Last(e.path))

\* a lookahead that never finds a marker
NoLookahead(c, t, e) == FALSE

\* the lookahead into a subdirectory: does it hold a marker
SubdirHasNoIndex(c, t, e) ==
    LET subFiles == ReadDir(t, e.path)
    IN \E k \in 1..Len(subFiles) : IsMarker(c, subFiles[k])

\* the second loop of Read over the listed entries
RECURSIVE ProcessFiles(_, _, _)
ProcessFiles(c, t, files) ==
    IF files = <<>> THEN <<>>
    ELSE LET file == Head(files)
             rest == ProcessFiles(c, t, Tail(files))
         IN IF shouldSkip(Last(file.path), c.IndexFile, c.Skips) THEN rest
            ELSE IF file.isDir /\ SubdirHasNoIndex(c, t, file) THEN rest
            ELSE <<Item(Last(file.path), humanizeBytes(file.size), FormatTime(file.mtime), file.isDir)>>
                 \o rest

ReadResult(its, skip, e) == [items |-> its, skip |-> skip, err |-> e]

\* LocalBackend.Read(path) on tree t when the operating system reports no error
\* other than a missing directory
LocalRead(c, t, path) ==
    LET ds == Lookup(t, c.Source, path) IN
    IF ds = {} THEN ReadResult(<<>>, FALSE, TRUE)
    ELSE LET d == CHOOSE x \in ds : TRUE
             files == ReadDir(t, d)
         IN IF \E k \in 1..Len(files) : IsMarker(c, files[k])
            THEN ReadResult(<<>>, TRUE, FALSE)
            ELSE ReadResult(ProcessFiles(c, t, files), FALSE, FALSE)

----------------------------------------------------------------------------
(* sorting *)

IsDigit(c) == c \in {"0", "1", "2", "3", "4", "5", "6", "7", "8", "9"}

RECURSIVE ParseSegs(_, _, _)
ParseSegs(s, cur, segs) ==
    IF s = <<>> THEN (IF cur # <<>> THEN Append(segs, cur) ELSE segs)
    ELSE IF Len(cur) = 0 \/ (IsDigit(cur[1]) = IsDigit(Head(s)))
         THEN ParseSegs(Tail(s), Append(cur, Head(s)), segs)
         ELSE ParseSegs(Tail(s), <<Head(s)>>, Append(segs, cur))

\* parseSegments: maximal runs of digits and of non-digits
parseSegments(s) == ParseSegs(s, <<>>, <<>>)

\* the largest int of a 64-bit build, 2^63 - 1, in decimal digits
MaxInt64 ==
    <<"9", "2", "2", "3", "3", "7", "2", "0", "3", "6", "8", "5", "4", "7", "7", "5", "8", "0", "7">>

\* a run of digits without its leading zeros: the decimal numeral of its value
RECURSIVE StripZeros(_)
StripZeros(s) == IF Len(s) > 1 /\ s[1] = "0" THEN StripZeros(Tail(s)) ELSE s

\* an < bn on two ints given as decimal numerals
NumLess(a, b) == Len(a) < Len(b) \/ (Len(a) = Len(b) /\ StrLess(a, b))

\* strconv.Atoi of a run of digits, its error dropped: the value as a decimal
\* numeral, and the largest int when the value is out of range
Atoi(s) ==
    LET v == StripZeros(s) IN IF NumLess(MaxInt64, v) THEN MaxInt64 ELSE v

RECURSIVE CmpSegs(_, _, _)
CmpSegs(as, bs, k) ==
    IF k > Len(as) \/ k > Len(bs) THEN Len(as) < Len(bs)
    ELSE IF as[k] = bs[k] THEN CmpSegs(as, bs, k + 1)
    ELSE LET aIsDigit == IsDigit(as[k][1])
             bIsDigit == IsDigit(bs[k][1])
         IN IF aIsDigit /\ bIsDigit THEN NumLess(Atoi(as[k]), Atoi(bs[k]))
            ELSE IF aIsDigit # bIsDigit THEN aIsDigit
            ELSE StrLess(as[k], bs[k])

cmpNatural(a, b) == CmpSegs(parseSegments(a), parseSegments(b), 1)

\* the less functions handed to sort.SliceStable
Less(kind, x, y) ==
    CASE kind = "name"         -> StrLess(x.Name, y.Name)
      [] kind = "date"         -> StrLess(y.LastModified, x.LastModified)
      [] kind = "natural_name" -> cmpNatural(x.Name, y.Name)
      [] kind = "desc"         -> ~cmpNatural(x.Name, y.Name)
      [] kind = "dirsFirst"    -> x.IsDir /\ ~y.IsDir
      [] OTHER                 -> FALSE

Swap(s, j, k) == [s EXCEPT ![j] = s[k], ![k] = s[j]]

\* the inner loop of the library's insertion sort: element j moves down while it is less than its predecessor
RECURSIVE Sink(_, _, _)
Sink(kind, s, j) ==
    IF j > 1 /\ Less(kind, s[j], s[j - 1]) THEN Sink(kind, Swap(s, j, j - 1), j - 1) ELSE s

RECURSIVE InsertFrom(_, _, _)
InsertFrom(kind, s, k) == IF k > Len(s) THEN s ELSE InsertFrom(kind, Sink(kind, s, k), k + 1)

\* sort.SliceStable on at most 20 elements: one insertion sort
SliceStable(kind, s) == InsertFrom(kind, s, 2)

orderByName(s) == SliceStable("name", s)

orderByLastModified(s) == SliceStable("date", s)

orderByNaturalName(s) == SliceStable("natural_name", s)

\* an orderDirsFirst that leaves the list as it is
orderDirsFirstOff(s) == s

orderDirsFirst(s) == SliceStable("dirsFirst", s)

Reverse(l) == [k \in 1..Len(l) |-> l[Len(l) + 1 - k]]

\* a descending pass that reverses what the primary sort left
orderDescReversed(s) == Reverse(s)

\* the pass of sort for order desc: a stable sort under the negated natural comparator
orderDesc(s) == SliceStable("desc", s)

\* Indexer.sort
sort(c, items) ==
    LET primary == CASE SortByValue(c) = "date"         -> orderByLastModified(items)
                     [] SortByValue(c) = "name"         -> orderByName(items)
                     [] SortByValue(c) = "natural_name" -> orderByNaturalName(items)
                     [] OTHER                           -> items
        ordered == IF OrderByValue(c) = "desc" THEN orderDesc(primary) ELSE primary
    IN IF c.DirsFirst THEN orderDirsFirst(ordered) ELSE ordered

----------------------------------------------------------------------------
(* the view model *)

\* index of the last "/" of s, 0 if none
RECURSIVE LastSlash(_)
LastSlash(s) == IF s = <<>> THEN 0 ELSE IF Last(s) = "/" THEN Len(s) ELSE LastSlash(Front(s))

\* filepath.Dir
Dir(p) == Clean(SubSeq(p, 1, LastSlash(p)))

\* the relative path left as TrimPrefix returned it
RawRelativePath(c, path) == TrimPrefix(path, c.BasePath)

\* relativePath of Indexer.data: path minus the base path, with a leading slash
RelativePath(c, path) ==
    LET relativePath == TrimPrefix(path, c.BasePath)
    IN IF ~HasPrefix(relativePath, <<"/">>) THEN <<"/">> \o relativePath ELSE relativePath

\* a HasParent that only compares the path with the base path
HasParentOffBase(c, path) == path # c.BasePath

\* HasParent of Indexer.data: false at the base path, elsewhere whether filepath.Dir moves up
HasParent(c, path) ==
    IF path = c.BasePath THEN FALSE
    ELSE LET parent == Dir(path) IN parent # path

\* the elements of a slash-separated path, empty ones and "." left out
RECURSIVE Elements(_)
Elements(s) ==
    IF s = <<>> THEN <<>>
    ELSE LET k == FirstSlash(s, 1)
             first == IF k = 0 THEN s ELSE SubSeq(s, 1, k - 1)
             rest == IF k = 0 THEN <<>> ELSE Elements(SubSeq(s, k + 1, Len(s)))
         IN IF first = <<>> \/ first = <<".">> THEN rest ELSE <<first>> \o rest

RECURSIVE Slashed(_)
Slashed(elems) ==
    IF elems = <<>> THEN <<>>
    ELSE IF Len(elems) = 1 THEN elems[1]
    ELSE elems[1] \o <<"/">> \o Slashed(Tail(elems))

\* path.Clean for paths without ".." elements
pathClean(s) ==
    LET rooted == HasPrefix(s, <<"/">>)
        body == Slashed(Elements(s))
    IN IF rooted THEN <<"/">> \o body ELSE IF body = <<>> THEN <<".">> ELSE body

\* path.Join: empty elements are ignored, the rest joined by "/" and cleaned
RECURSIVE Glue(_)
Glue(parts) ==
    IF parts = <<>> THEN <<>>
    ELSE IF Head(parts) = <<>> THEN Glue(Tail(parts))
    ELSE LET rest == Glue(Tail(parts))
         IN IF rest = <<>> THEN Head(parts) ELSE Head(parts) \o <<"/">> \o rest

pathJoin(parts) == IF Glue(parts) = <<>> THEN <<>> ELSE pathClean(Glue(parts))

\* index of the first ":" of s at or after position k, 0 if none
RECURSIVE FirstColon(_, _)
FirstColon(s, k) == IF k > Len(s) THEN 0 ELSE IF s[k] = ":" THEN k ELSE FirstColon(s, k + 1)

\* url.Parse of "scheme://host/path" or of a bare path: what precedes the path, and the path
urlParse(u) ==
    LET k == FirstColon(u, 1)
        h == IF k = 0 THEN 0 ELSE FirstSlash(u, k + 3)
    IN IF k = 0 THEN [Origin |-> <<>>, Path |-> u]
       ELSE IF h = 0 THEN [Origin |-> u, Path |-> <<>>]
       ELSE [Origin |-> SubSeq(u, 1, h - 1), Path |-> SubSeq(u, h, Len(u))]

\* URL.EscapedPath: a space is written %20
RECURSIVE EscapedPath(_)
EscapedPath(s) ==
    IF s = <<>> THEN <<>>
    ELSE (IF Head(s) = " " THEN <<"%", "2", "0">> ELSE <<Head(s)>>) \o EscapedPath(Tail(s))

\* URL.String: a path that lacks its leading slash gets one after a host
urlString(u) ==
    LET path == EscapedPath(u.Path)
    IN IF u.Origin # <<>> /\ path # <<>> /\ Head(path) # "/" THEN u.Origin \o <<"/">> \o path
       ELSE u.Origin \o path

joinURL(baseURL, parts) ==
    LET u == urlParse(baseURL)
        joinedPath == pathJoin(parts)
    IN urlString([u EXCEPT !.Path = pathJoin(<<u.Path, joinedPath>>)])

resolveParentPath(baseURL, parent, indexFile, linkToIndexes) ==
    LET parentURL == joinURL(baseURL, <<parent>>)
    IN IF linkToIndexes THEN parentURL \o indexFile ELSE parentURL

\* a directory URL that keeps the slashes its name came with
DirURLUntrimmed(url, linkToIndexes, indexFile) ==
    IF linkToIndexes THEN url \o <<"/">> \o indexFile ELSE url \o <<"/">>

DirURL(url, linkToIndexes, indexFile) ==
    LET slashed == TrimSuffix(url, <<"/">>) \o <<"/">>
    IN IF linkToIndexes THEN slashed \o indexFile ELSE slashed

resolveItemURL(baseURL, path, name, isDir, linkToIndexes, indexFile) ==
    LET url == IF baseURL # <<>> THEN joinURL(baseURL, <<path, name>>) ELSE name
    IN IF isDir THEN DirURL(url, linkToIndexes, indexFile) ELSE url

\* a processItemForData that also takes the trailing slash off the name
processItemRenamed(c, path, item) ==
    [item EXCEPT !.Name = TrimSuffix(item.Name, <<"/">>),
                 !.URL = resolveItemURL(c.BaseURL, RelativePath(c, path), item.Name, item.IsDir,
                                        c.LinkToIndexes, c.IndexFile)]

\* Indexer.processItemForData
processItemForData(c, path, item) ==
    [item EXCEPT !.URL = resolveItemURL(c.BaseURL, RelativePath(c, path), item.Name, item.IsDir,
                                        c.LinkToIndexes, c.IndexFile)]

\* Parent of Indexer.data: empty at the base path, elsewhere the link to filepath.Dir(path)
Parent(c, path) ==
    IF path = c.BasePath THEN <<>>
    ELSE resolveParentPath(c.BaseURL, RelativePath(c, Dir(path)), c.IndexFile, c.LinkToIndexes)

\* Indexer.data
data(c, items, path) ==
    [ RootPath     |-> c.BasePath,
      Path         |-> path,
      RelativePath |-> RelativePath(c, path),
      URL          |-> c.BaseURL,
      Parent       |-> Parent(c, path),
      HasParent    |-> HasParent(c, path),
      Items        |-> sort(c, [k \in 1..Len(items) |-> processItemForData(c, path, items[k])]) ]

NoData ==
    [RootPath |-> <<>>, Path |-> <<>>, RelativePath |-> <<>>, URL |-> <<>>, Parent |-> <<>>,
     HasParent |-> FALSE, Items |-> <<>>]

----------------------------------------------------------------------------
(* configurations and initial states *)

Config(src, tgt, sortBy, order, rec, dirsFirst, noIndex, base) ==
    [ Source |-> src, Target |-> tgt, SortBy |-> sortBy, Order |-> order,
      Recursive |-> rec, DirsFirst |-> dirsFirst, NoIndexFiles |-> noIndex,
      IndexFile |-> Ni, Skips |-> <<>>, BasePath |-> base,
      BaseURL |-> <<>>, LinkToIndexes |-> FALSE ]

SourceDir == <<"/", "a">>

TargetDir == <<"/", "t">>

\* the sort policies the traversal is run under
SortPolicies ==
    { <<"natural_name", "asc", TRUE>>, <<"name", "desc", FALSE>>, <<"last_modified", "asc", FALSE>> }

\* command lines over one fixed tree: every combination of present, absent, valid and invalid settings
FixedTree ==
    { e \in Universe : e.path \in {<<Nf>>, <<Na>>, <<Na, Nf>>} }

InitAnyConfig ==
    /\ harness = "main"
    /\ tree = FixedTree
    /\ \E src \in {<<>>, SourceDir, SourceDir \o <<"/">>}, tgt \in {<<>>, TargetDir},
          sortBy \in {"last_modified", "name", "natural_name", "name_natural", ""},
          order \in {"asc", "desc", "", "ascending"} :
            cfg = Config(src, tgt, sortBy, order, TRUE, TRUE, <<Nn>>, <<>>)
    /\ phase = "new" /\ source = "none" /\ target = "none"

\* valid command lines over every tree
InitAnyTree ==
    /\ harness = "main"
    /\ tree \in Trees
    /\ \E pol \in SortPolicies, rec \in BOOLEAN :
            cfg = Config(SourceDir, TargetDir, pol[1], pol[2], rec, pol[3], <<Nn>>, <<>>)
    /\ phase = "new" /\ source = "none" /\ target = "none"

\* an Indexer literal over mock backends, as the unit tests build it
InitTest ==
    /\ harness = "test"
    /\ tree = {}
    /\ \E rec \in BOOLEAN, base \in {<<>>, <<"p">>} :
            cfg = Config(<<>>, <<>>, "", "", rec, FALSE, <<>>, base)
    /\ phase = "ready" /\ source = "mock" /\ target = "set"

Init ==
    /\ (InitAnyConfig \/ InitAnyTree \/ InitTest)
    /\ stack = <<>>
    /\ calls = <<>>
    /\ newErr = ""
    /\ result = "none"
    /\ fnIn = <<>>
    /\ fnOut = <<>>
    /\ store = <<>>

----------------------------------------------------------------------------
(* New *)

\* setupBackends: a local source is made absolute and the base path is the
\* source without a trailing slash; the base path of an S3 source is the
\* prefix of its URI, "/" when there is none
setupBackends(c) ==
    IF ~isS3URI(c.Source)
    THEN [c EXCEPT !.Source = Abs(c.Source), !.BasePath = TrimSuffix(Abs(c.Source), <<"/">>)]
    ELSE LET prefix == uriToBucketAndPrefix(c.Source)[2]
         IN [c EXCEPT !.BasePath = IF prefix = <<>> THEN <<"/">> ELSE prefix]

New ==
    /\ phase = "new"
    /\ LET e == Validate(cfg) IN
       IF e # ""
       THEN /\ newErr' = e
            /\ phase' = "exit"
            /\ UNCHANGED <<cfg, source, target>>
       ELSE /\ cfg' = setupBackends(cfg)
            /\ source' = "local"
            /\ target' = "set"
            /\ phase' = "ready"
            /\ UNCHANGED newErr
    /\ UNCHANGED <<harness, tree, stack, calls, result, fnIn, fnOut, store>>

----------------------------------------------------------------------------
(* Generate *)

Frame(path, rel) ==
    [path |-> path, rel |-> rel, pc |-> "read", items |-> <<>>, idx |-> 1, data |-> NoData, err |-> FALSE]

Call(op, dir, rel, arg, items, skip, ok) ==
    [op |-> op, dir |-> dir, rel |-> rel, arg |-> arg, items |-> items, skip |-> skip, ok |-> ok]

\* the path the caller hands to Generate: main passes Cfg.BasePath, the tests a literal
StartPath == IF harness = "main" THEN cfg.BasePath ELSE <<"p">>

GenerateCall ==
    /\ phase = "ready"
    /\ phase' = "running"
    /\ stack' = <<Frame(StartPath, <<>>)>>
    /\ UNCHANGED <<cfg, harness, tree, source, target, calls, newErr, result, fnIn, fnOut, store>>

Top == stack[Len(stack)]

SetTop(f) == [stack EXCEPT ![Len(stack)] = f]

\* what a mock source may answer at a given depth of the recursion
MockAnswers(depth) ==
    LET f == Item(Nf, humanizeBytes(4), FormatTime(3), FALSE)
        a == Item(Na, <<>>, <<>>, TRUE)
        lists == {<<>>, <<f>>} \cup (IF depth < MaxMockDepth THEN {<<a>>, <<a, f>>} ELSE {})
    IN { ReadResult(l, sk, FALSE) : l \in lists, sk \in BOOLEAN } \cup { ReadResult(<<>>, FALSE, TRUE) }

\* the answers Source.Read(path) may give
ReadAnswers(path) ==
    IF source = "mock" THEN MockAnswers(Len(stack) - 1)
    ELSE { LocalRead(cfg, tree, path), ReadResult(<<>>, FALSE, TRUE) }

\* a Generate that goes on after a noindex answer
IgnoreNoIndex(hasNoIndex) == FALSE

\* Generate returns at once when Read reports a noindex marker
SkipGeneration(hasNoIndex) == hasNoIndex

\* a Generate that renders and writes whatever the items
NextStepAlwaysWrite(pc, items) ==
    CASE pc = "read"     -> "ensure"
      [] pc = "ensure"   -> "template"
      [] pc = "template" -> "write"
      [] OTHER           -> "recurse"

\* a Generate that makes the target directory only after writing the index
NextStepEnsureLate(pc, items) ==
    CASE pc = "read"     -> IF Len(items) > 0 THEN "template" ELSE "ensure"
      [] pc = "template" -> "write"
      [] pc = "write"    -> "ensure"
      [] OTHER           -> "recurse"

\* the order of the steps of Generate after a successful step
NextStep(pc, items) ==
    CASE pc = "read"     -> "ensure"
      [] pc = "ensure"   -> IF Len(items) > 0 THEN "template" ELSE "recurse"
      [] pc = "template" -> "write"
      [] OTHER           -> "recurse"

\* a parseItem that never recurses
RecurseNever(c, item) == FALSE

\* a parseItem that recurses whatever the recursive flag
RecurseAlways(c, item) == item.IsDir

\* parseItem: recurse into directories when recursive mode is on
ShouldRecurse(c, item) == item.IsDir /\ c.Recursive

\* a loop that goes on to the next item after a failed subdirectory
SwallowError(err) == FALSE

\* the loop over the items returns the error of parseItem
PropagateError(err) == err

\* a loop over the items that ends after the first item
LoopDoneAfterFirst(idx, items) == idx > Len(items) \/ idx > 1

\* the loop over the items has passed the last item
LoopDone(idx, items) == idx > Len(items)

Return(f, e) == [f EXCEPT !.pc = "ret", !.err = e]

\* Read has answered r
ReadAnswered(r) ==
    /\ calls' = Append(calls, Call("Read", Top.path, Top.rel, Top.path, r.items, r.skip, ~r.err))
    /\ stack' = SetTop(
         IF r.err THEN Return(Top, TRUE)
         ELSE IF SkipGeneration(r.skip) THEN Return(Top, FALSE)
         ELSE [Top EXCEPT !.items = r.items,
                          !.data = data(cfg, r.items, Top.path),
                          !.pc = NextStep("read", r.items)])

GenRead ==
    /\ phase = "running" /\ stack # <<>> /\ Top.pc = "read"
    /\ \/ ReadAnswered(ReadResult(<<>>, FALSE, TRUE))
       \/ \E r \in ReadAnswers(Top.path) : ~r.err /\ ReadAnswered(r)
    /\ UNCHANGED <<cfg, harness, tree, phase, source, target, newErr, result, fnIn, fnOut, store>>

GenEnsure ==
    /\ phase = "running" /\ stack # <<>> /\ Top.pc = "ensure"
    /\ \E ok \in BOOLEAN :
        /\ calls' = Append(calls, Call("EnsureDirExists", Top.path, Top.rel, Top.data.RelativePath, <<>>, FALSE, ok))
        /\ stack' = SetTop(IF ok THEN [Top EXCEPT !.pc = NextStep("ensure", Top.items)]
                           ELSE Return(Top, TRUE))
    /\ UNCHANGED <<cfg, harness, tree, phase, source, target, newErr, result, fnIn, fnOut, store>>

\* loading, parsing and executing the template
GenTemplate ==
    /\ phase = "running" /\ stack # <<>> /\ Top.pc = "template"
    /\ \E ok \in BOOLEAN :
        /\ calls' = Append(calls, Call("Render", Top.path, Top.rel, Top.data.RelativePath, Top.data.Items, FALSE, ok))
        /\ stack' = SetTop(IF ok THEN [Top EXCEPT !.pc = NextStep("template", Top.items)]
                           ELSE Return(Top, TRUE))
    /\ UNCHANGED <<cfg, harness, tree, phase, source, target, newErr, result, fnIn, fnOut, store>>

GenWrite ==
    /\ phase = "running" /\ stack # <<>> /\ Top.pc = "write"
    /\ \E ok \in BOOLEAN :
        /\ calls' = Append(calls, Call("Write", Top.path, Top.rel, Top.data.RelativePath, Top.data.Items, FALSE, ok))
        /\ stack' = SetTop(IF ok THEN [Top EXCEPT !.pc = NextStep("write", Top.items)]
                           ELSE Return(Top, TRUE))
    /\ UNCHANGED <<cfg, harness, tree, phase, source, target, newErr, result, fnIn, fnOut, store>>

\* one turn of the loop over the items: parseItem on the next item
GenRecurse ==
    /\ phase = "running" /\ stack # <<>> /\ Top.pc = "recurse"
    /\ IF LoopDone(Top.idx, Top.items)
       THEN stack' = SetTop(Return(Top, FALSE))
       ELSE LET item == Top.items[Top.idx] IN
            IF ShouldRecurse(cfg, item)
            THEN stack' = Append(SetTop([Top EXCEPT !.pc = "wait"]),
                                 Frame(Join(Top.path, item.Name), Append(Top.rel, item.Name)))
            ELSE stack' = SetTop([Top EXCEPT !.idx = Top.idx + 1])
    /\ UNCHANGED <<cfg, harness, tree, phase, source, target, calls, newErr, result, fnIn, fnOut, store>>

\* a Generate activation returns to its caller
GenReturn ==
    /\ phase = "running" /\ stack # <<>> /\ Top.pc = "ret"
    /\ IF Len(stack) = 1
       THEN /\ stack' = <<>>
            /\ result' = IF Top.err THEN "err" ELSE "nil"
            /\ phase' = "exit"
       ELSE LET parent == stack[Len(stack) - 1]
                rest == Front(stack)
            IN /\ stack' = [rest EXCEPT ![Len(rest)] =
                              IF PropagateError(Top.err) THEN Return(parent, TRUE)
                              ELSE [parent EXCEPT !.pc = "recurse", !.idx = parent.idx + 1]]
               /\ UNCHANGED <<result, phase>>
    /\ UNCHANGED <<cfg, harness, tree, source, target, calls, newErr, fnIn, fnOut, store>>

Next ==
    \/ New
    \/ GenerateCall
    \/ GenRead
    \/ GenEnsure
    \/ GenTemplate
    \/ GenWrite
    \/ GenRecurse
    \/ GenReturn

Spec == Init /\ [][Next]_vars

\* the program is sequential and every call returns: a step that can be taken is taken
SpecLive == Init /\ [][Next]_vars /\ WF_vars(Next)

----------------------------------------------------------------------------
(* Indexer.data applied on its own, and along the paths parseItem builds *)

MaxDescent == 2

DataBases == { <<>>, <<"/">>, <<".">>, <<"a">>, <<"/", "a">> }

DataPaths == DataBases \cup { <<"b">>, <<"/", "a", "/", "b">> }

DataItems ==
    { <<>>,
      <<Item(Na, <<>>, <<>>, TRUE), Item(Nf, humanizeBytes(4), FormatTime(3), FALSE)>>,
      <<Item(<<"f", " ", "2">>, humanizeBytes(7), FormatTime(12), FALSE), Item(<<"b", "/">>, <<>>, <<>>, TRUE)>>,
      <<Item(<<"1", "0">>, humanizeBytes(4), FormatTime(3), FALSE), Item(<<"0", "1", "b">>, <<>>, <<>>, TRUE),
        Item(<<"2">>, humanizeBytes(9), FormatTime(10), FALSE)>> }

\* base URLs: none, a path, a site, a directory of a site
DataURLs ==
    { <<>>, <<"/", "u">>, <<"h", ":", "/", "/", "e">>, <<"h", ":", "/", "/", "e", "/", "u", "/">> }

\* the variables of the traversal, at rest
Idle ==
    /\ tree = {} /\ source = "none" /\ target = "none"
    /\ stack = <<>> /\ calls = <<>> /\ newErr = "" /\ result = "none"

DataArgs(path, items, fromBase, depth) ==
    [path |-> path, items |-> items, fromBase |-> fromBase, depth |-> depth]

InitData ==
    /\ harness = "data" /\ phase = "data" /\ Idle
    /\ \/ /\ \E base \in DataBases, baseURL \in DataURLs, linkToIndexes \in BOOLEAN :
                  cfg = [Config(<<>>, <<>>, "", "", TRUE, FALSE, <<>>, base)
                           EXCEPT !.BaseURL = baseURL, !.LinkToIndexes = linkToIndexes]
          /\ \E path \in DataPaths, items \in DataItems :
                  fnIn = DataArgs(path, items, path = cfg.BasePath, 0)
       \/ /\ \E baseURL \in {<<>>, <<"h", ":", "/", "/", "e">>},
                sortBy \in {"last_modified", "name", "natural_name"}, order \in {"asc", "desc"},
                dirsFirst \in BOOLEAN :
                  cfg = [Config(<<>>, <<>>, sortBy, order, TRUE, dirsFirst, <<>>, SourceDir)
                           EXCEPT !.BaseURL = baseURL, !.LinkToIndexes = TRUE]
          /\ \E items \in DataItems : fnIn = DataArgs(SourceDir, items, TRUE, 0)
    /\ fnOut = <<>>
    /\ store = <<>>

\* data(items, path)
DataCall ==
    /\ phase = "data"
    /\ fnOut' = data(cfg, fnIn.items, fnIn.path)
    /\ phase' = "dataBuilt"
    /\ UNCHANGED <<cfg, harness, tree, source, target, stack, calls, newErr, result, fnIn, store>>

\* parseItem: the path of the Generate for a subdirectory item, whose listing is again one of DataItems
DataDescend ==
    /\ phase = "dataBuilt" /\ fnIn.depth < MaxDescent
    /\ \E k \in 1..Len(fnIn.items), items \in DataItems :
          /\ ShouldRecurse(cfg, fnIn.items[k])
          /\ fnIn' = DataArgs(Join(fnIn.path, fnIn.items[k].Name), items, fnIn.fromBase, fnIn.depth + 1)
    /\ phase' = "data"
    /\ fnOut' = <<>>
    /\ UNCHANGED <<cfg, harness, tree, source, target, stack, calls, newErr, result, store>>

NextData == DataCall \/ DataDescend

SpecData == InitData /\ [][NextData]_vars

----------------------------------------------------------------------------
(* Indexer.sort and cmpNatural applied on their own *)

MaxItems == 3

\* names whose natural order differs from their byte order, names that tie
\* under cmpNatural, files and directories, equal and distinct dates
SortPool ==
    { Item(<<"2">>, humanizeBytes(4), FormatTime(3), FALSE),
      Item(<<"1", "0">>, humanizeBytes(4), FormatTime(1), FALSE),
      Item(<<"1", "a">>, humanizeBytes(4), FormatTime(2), FALSE),
      Item(<<"0", "1", "b">>, <<>>, FormatTime(2), TRUE),
      Item(<<"1", "b">>, <<>>, FormatTime(4), TRUE),
      Item(<<"a">>, <<>>, FormatTime(5), TRUE) }

\* the item lists of at most n distinct items of the pool
RECURSIVE Lists(_)
Lists(n) ==
    IF n = 0 THEN { <<>> }
    ELSE LET shorter == Lists(n - 1)
         IN shorter \cup { Append(l, x) : l \in { m \in shorter : Len(m) = n - 1 }, x \in SortPool }

Distinct(l) == \A j, k \in 1..Len(l) : j # k => l[j] # l[k]

SortInputs == { l \in Lists(MaxItems) : Distinct(l) }

\* names made of digits only: small values, leading zeros, values at and beyond the range of int
DigitNames ==
    { <<"2">>, <<"1", "0">>, <<"1">>, <<"0", "1">>, <<"0", "0", "2">>, <<"0">>,
      MaxInt64, Front(MaxInt64) \o <<"8">>, <<"0">> \o MaxInt64, MaxInt64 \o <<"0">> }

\* the names of the pool: digits and letters mixed, with and without leading zeros
NaturalNames == { x.Name : x \in SortPool }

InitSort ==
    /\ harness = "sort" /\ Idle
    /\ \/ /\ phase = "sort"
          /\ \E sortBy \in {"last_modified", "name", "natural_name"}, order \in {"asc", "desc"},
                dirsFirst \in BOOLEAN :
                  cfg = Config(<<>>, <<>>, sortBy, order, FALSE, dirsFirst, <<>>, <<>>)
          /\ fnIn \in SortInputs
       \/ /\ phase = "cmp"
          /\ cfg = Config(<<>>, <<>>, "natural_name", "asc", FALSE, FALSE, <<>>, <<>>)
          /\ fnIn \in (DigitNames \X DigitNames) \cup (NaturalNames \X NaturalNames)
    /\ fnOut = <<>>
    /\ store = <<>>

\* i.sort(&items)
SortCall ==
    /\ phase = "sort"
    /\ fnOut' = sort(cfg, fnIn)
    /\ phase' = "sorted"
    /\ UNCHANGED <<cfg, harness, tree, source, target, stack, calls, newErr, result, fnIn, store>>

\* cmpNatural(a, b)
CmpCall ==
    /\ phase = "cmp"
    /\ fnOut' = cmpNatural(fnIn[1], fnIn[2])
    /\ phase' = "compared"
    /\ UNCHANGED <<cfg, harness, tree, source, target, stack, calls, newErr, result, fnIn, store>>

NextSort == SortCall \/ CmpCall

SpecSort == InitSort /\ [][NextSort]_vars

----------------------------------------------------------------------------
(* S3Backend.Read *)

\* the key of the object a file of the tree is stored as: its names joined by "/"
RECURSIVE KeyOf(_)
KeyOf(p) == IF Len(p) = 1 THEN p[1] ELSE KeyOf(Front(p)) \o <<"/">> \o Last(p)

Objects(t) == { [key |-> KeyOf(e.path), size |-> e.size, mtime |-> e.mtime] : e \in { x \in t : ~x.isDir } }

\* a set of strings as the list in byte order
RECURSIVE SortStrings(_)
SortStrings(ss) ==
    IF ss = {} THEN <<>>
    ELSE LET m == CHOOSE x \in ss : \A o \in ss : o = x \/ StrLess(x, o)
         IN <<m>> \o SortStrings(ss \ {m})

\* ListObjectsV2 with delimiter "/": the objects right under the prefix, and
\* the common prefixes of the objects further down, both in key order
ListObjectsV2(t, prefix) ==
    LET under == { o \in Objects(t) : HasPrefix(o.key, prefix) }
        rest(o) == TrimPrefix(o.key, prefix)
        direct == { o \in under : FirstSlash(rest(o), 1) = 0 }
        keys == SortStrings({ o.key : o \in direct })
    IN [ Contents |-> [k \in 1..Len(keys) |-> CHOOSE o \in direct : o.key = keys[k]],
         CommonPrefixes |-> SortStrings({ prefix \o SubSeq(rest(o), 1, FirstSlash(rest(o), 1)) : o \in under \ direct }) ]

\* filepath.Base of a key (not empty, no trailing slash)
Base(key) == SubSeq(key, LastSlash(key) + 1, Len(key))

RECURSIVE ContentItems(_, _)
\* a loop over the listed objects that filters nothing
ContentItemsUnfiltered(c, contents) ==
    [k \in 1..Len(contents) |->
        Item(Base(contents[k].key), humanizeBytes(contents[k].size), FormatTime(contents[k].mtime), FALSE)]

ContentItems(c, contents) ==
    IF contents = <<>> THEN <<>>
    ELSE LET content == Head(contents)
             rest == ContentItems(c, Tail(contents))
         IN IF shouldSkip(content.key, c.IndexFile, c.Skips) THEN rest
            ELSE <<Item(Base(content.key), humanizeBytes(content.size), FormatTime(content.mtime), FALSE)>> \o rest

PrefixItems(prefix, cps) == [k \in 1..Len(cps) |-> Item(TrimPrefix(cps[k], prefix), <<>>, <<>>, TRUE)]

\* S3Backend.Read(prefix) when the listing succeeds
S3Read(c, t, path) ==
    LET slashed == IF ~HasSuffix(path, <<"/">>) THEN path \o <<"/">> ELSE path
        trimmed == TrimPrefix(slashed, <<"/">>)
        prefix == IF trimmed = <<"/">> THEN <<>> ELSE trimmed
        resp == ListObjectsV2(t, prefix)
    IN ReadResult(ContentItems(c, resp.Contents) \o PrefixItems(prefix, resp.CommonPrefixes), FALSE, FALSE)

----------------------------------------------------------------------------
(* Read of either backend applied on its own *)

MaxReadEntries == 4

Nx == <<"x">>
Nxi == <<"x", "i">>

\* the entries the directories read are made of: plain files, a file with a
\* skip name, the index file, a file whose name ends in the index filename,
\* subdirectories with and without a noindex marker
ReadUniverse ==
    { Entry(<<Nf>>, FALSE, 4, 3),
      Entry(<<Nx>>, FALSE, 5, 2),
      Entry(<<Ni>>, FALSE, 12, 2),
      Entry(<<Nxi>>, FALSE, 6, 4),
      Entry(<<Na>>, TRUE, 2048, 5),
      Entry(<<Nb>>, TRUE, 2048, 4),
      Entry(<<Na, Nn>>, FALSE, 0, 1),
      Entry(<<Na, Nf>>, FALSE, 7, 12),
      Entry(<<Nb, Nf>>, FALSE, 9, 10) }

ReadTrees == { t \in SUBSET ReadUniverse : Cardinality(t) <= MaxReadEntries /\ WellFormed(t) }

BucketUri == <<"s", "3", ":", "/", "/", "b">>

\* the paths Generate hands to Read: directories of the tree below the
\* source directory, prefixes of the bucket with and without a trailing slash
ReadPaths(src, t) ==
    IF src = "local" THEN { AbsPath(SourceDir, d) : d \in DirsOf(t) }
    ELSE { <<>>, <<"/">> } \cup { KeyOf(d) : d \in DirsOf(t) \ {<<>>} }
                          \cup { KeyOf(d) \o <<"/">> : d \in DirsOf(t) \ {<<>>} }

InitRead ==
    /\ harness = "read" /\ phase = "read"
    /\ source \in {"local", "s3"}
    /\ cfg = [Config(IF source = "local" THEN SourceDir ELSE BucketUri, TargetDir, "", "", TRUE, FALSE,
                     <<Nn>>, IF source = "local" THEN SourceDir ELSE <<>>) EXCEPT !.Skips = <<Nx>>]
    /\ tree \in ReadTrees
    /\ fnIn \in ReadPaths(source, tree)
    /\ target = "none" /\ stack = <<>> /\ calls = <<>> /\ newErr = "" /\ result = "none"
    /\ fnOut = <<>>
    /\ store = <<>>

\* LocalBackend.Read(path)
LocalReadCall ==
    /\ phase = "read" /\ source = "local"
    /\ fnOut' = LocalRead(cfg, tree, fnIn)
    /\ phase' = "readDone"
    /\ UNCHANGED <<cfg, harness, tree, source, target, stack, calls, newErr, result, fnIn, store>>

\* S3Backend.Read(prefix)
S3ReadCall ==
    /\ phase = "read" /\ source = "s3"
    /\ fnOut' = S3Read(cfg, tree, fnIn)
    /\ phase' = "readDone"
    /\ UNCHANGED <<cfg, harness, tree, source, target, stack, calls, newErr, result, fnIn, store>>

NextRead == LocalReadCall \/ S3ReadCall

SpecRead == InitRead /\ [][NextRead]_vars

----------------------------------------------------------------------------
(* LocalBackend.Write *)

\* a target directory tree: the directories and the files with their content
Store(dirs, files) == [dirs |-> dirs, files |-> files]

File(p, content) == [path |-> p, content |-> content]

FileAt(st, p) == { f \in st.files : f.path = p }

\* the directories os.MkdirAll(p) makes sure of: p and every directory above it
RECURSIVE Ancestors(_)
Ancestors(p) == IF p = <<"/">> \/ p = <<".">> THEN {} ELSE {p} \cup Ancestors(Dir(p))

\* os.MkdirAll fails when one of them is a file
MkdirAllFails(st, p) == \E a \in Ancestors(p) : FileAt(st, a) # {}

\* an open that leaves the content of an existing file in place
CreateKeeping(old) == old

\* os.Create: the file is created, or truncated when it exists
Create(old) == <<>>

\* file.WriteString on the file just opened: the bytes go in from offset 0
WriteString(old, content) == content \o SubSeq(old, Len(content) + 1, Len(old))

\* the directory Write puts the index file in
LocalPath(c, vm) ==
    LET prefix == TrimPrefix(TrimPrefix(vm.RelativePath, c.BasePath), <<"/">>)
    IN IF prefix = <<>> \/ prefix = <<"/">> THEN c.Target ELSE Join(c.Target, prefix)

\* LocalBackend.Write(data, content) on the target tree st, vm being the view model data; fail names the
\* call the operating system refuses, if any
LocalWrite(c, st, vm, content, fail) ==
    LET localPath == LocalPath(c, vm)
        filePath == Join(localPath, c.IndexFile)
        made == [st EXCEPT !.dirs = @ \cup Ancestors(localPath)]
        old == IF FileAt(st, filePath) = {} THEN <<>> ELSE (CHOOSE f \in FileAt(st, filePath) : TRUE).content
        opened == Create(old)
        put(cnt) == [made EXCEPT !.files = { f \in @ : f.path # filePath } \cup { File(filePath, cnt) }]
    IN IF fail = "MkdirAll" \/ MkdirAllFails(st, localPath) THEN [store |-> st, err |-> TRUE]
       ELSE IF fail = "Create" \/ filePath \in made.dirs THEN [store |-> made, err |-> TRUE]
       ELSE IF fail = "WriteString" THEN [store |-> put(opened), err |-> TRUE]
       ELSE [store |-> put(WriteString(opened, content)), err |-> FALSE]

----------------------------------------------------------------------------
(* S3Backend.Write *)

\* the target prefix Write starts the key with: the base path is cut off its front
TargetPrefix(c) == TrimPrefix(uriToBucketAndPrefix(c.Target)[2], c.BasePath)

\* the PutObjectInput of S3Backend.Write(data, content), vm being the view model data
S3Write(c, vm, content) ==
    [ Bucket          |-> uriToBucketAndPrefix(c.Target)[1],
      Key             |-> Join(Join(TargetPrefix(c), vm.RelativePath), c.IndexFile),
      Body            |-> content,
      ContentType     |-> "text/html",
      ContentEncoding |-> "utf-8" ]

----------------------------------------------------------------------------
(* Write of either backend applied on its own *)

MaxWrites == 2

BucketPath == BucketUri \o <<"/", "p">>

\* the view models handed to Write: those data builds for the base path and
\* for directories below it, and the literals of the tests (a relative path
\* that repeats the base path and ends in a slash, one without leading slash)
WriteData(c) ==
    { data(c, <<>>, path) : path \in { c.BasePath, Join(c.BasePath, Na), Join(Join(c.BasePath, Na), Nb) } }
    \cup { [NoData EXCEPT !.RelativePath = rp] : rp \in { c.BasePath \o <<"/", "b", "/">>, <<"b", "/">> } }

WriteContents == { <<"x">>, <<"x", "y", "z">> }

\* what the target directory holds beforehand: nothing, an older and longer
\* index file, a file where a subdirectory is to go, a directory named like
\* the index file
TargetStores ==
    { Store({}, {}),
      Store({TargetDir}, {File(Join(TargetDir, Ni), <<"o", "l", "d", "e", "r">>)}),
      Store({TargetDir}, {File(Join(TargetDir, Na), <<"o">>)}),
      Store({TargetDir, Join(TargetDir, Ni)}, {}) }

InitWrite ==
    /\ harness = "write" /\ phase = "write"
    /\ \E src \in {SourceDir, BucketUri, BucketPath}, tgt \in {TargetDir, BucketUri, BucketUri \o <<"/">>, BucketPath} :
          /\ cfg = setupBackends(Config(src, tgt, "", "", TRUE, FALSE, <<>>, <<>>))
          /\ source = IF isS3URI(src) THEN "s3" ELSE "local"
          /\ target = IF isS3URI(tgt) THEN "s3" ELSE "local"
    /\ store \in IF target = "local" THEN TargetStores ELSE { Store({}, {}) }
    /\ tree = {} /\ stack = <<>> /\ calls = <<>> /\ newErr = "" /\ result = "none"
    /\ fnIn = <<>>
    /\ fnOut = <<>>

WriteArgs(vm, content) == [data |-> vm, content |-> content]

\* LocalBackend.Write(data, content)
LocalWriteCall ==
    /\ phase = "write" /\ target = "local" /\ Len(calls) < MaxWrites
    /\ \E vm \in WriteData(cfg), content \in WriteContents, fail \in {"", "MkdirAll", "Create", "WriteString"} :
          LET r == LocalWrite(cfg, store, vm, content, fail)
          IN /\ store' = r.store
             /\ fnIn' = WriteArgs(vm, content)
             /\ fnOut' = r.err
             /\ calls' = Append(calls, [op |-> "Write", arg |-> WriteArgs(vm, content), ok |-> ~r.err])
    /\ UNCHANGED <<cfg, harness, tree, phase, source, target, stack, newErr, result>>

\* S3Backend.Write(data, content): one PutObject, which the service may refuse
S3WriteCall ==
    /\ phase = "write" /\ target = "s3" /\ Len(calls) < MaxWrites
    /\ \E vm \in WriteData(cfg), content \in WriteContents, err \in BOOLEAN :
          LET input == S3Write(cfg, vm, content)
          IN /\ store' = IF err THEN store
                         ELSE [store EXCEPT !.files = { f \in @ : f.path # input.Key } \cup { File(input.Key, input.Body) }]
             /\ fnIn' = WriteArgs(vm, content)
             /\ fnOut' = err
             /\ calls' = Append(calls, [op |-> "PutObject", arg |-> input, ok |-> ~err])
    /\ UNCHANGED <<cfg, harness, tree, phase, source, target, stack, newErr, result>>

NextWrite == LocalWriteCall \/ S3WriteCall

SpecWrite == InitWrite /\ [][NextWrite]_vars

----------------------------------------------------------------------------
(* S3Backend.Read with noindex detection *)

\* an object of the listing is a noindex marker: its base name is in NoIndexFiles
S3HasMarker(c, contents) ==
    Len(c.NoIndexFiles) > 0 /\ \E k \in 1..Len(contents) : contains(c.NoIndexFiles, Base(contents[k].key))

\* the common prefixes whose own one-level listing holds no marker
RECURSIVE Unmarked(_, _, _)
Unmarked(c, t, cps) ==
    IF cps = <<>> THEN <<>>
    ELSE IF S3HasMarker(c, ListObjectsV2(t, Head(cps)).Contents) THEN Unmarked(c, t, Tail(cps))
    ELSE <<Head(cps)>> \o Unmarked(c, t, Tail(cps))

\* S3Backend.Read(prefix) with noindex detection, when every listing succeeds
S3ReadNoIndex(c, t, path) ==
    LET slashed == IF ~HasSuffix(path, <<"/">>) THEN path \o <<"/">> ELSE path
        trimmed == TrimPrefix(slashed, <<"/">>)
        prefix == IF trimmed = <<"/">> THEN <<>> ELSE trimmed
        resp == ListObjectsV2(t, prefix)
    IN IF S3HasMarker(c, resp.Contents) THEN ReadResult(<<>>, TRUE, FALSE)
       ELSE ReadResult(ContentItems(c, resp.Contents)
                       \o PrefixItems(prefix, Unmarked(c, t, resp.CommonPrefixes)), FALSE, FALSE)

InitS3Read ==
    /\ harness = "read" /\ phase = "read" /\ source = "s3"
    /\ cfg = [Config(BucketUri, TargetDir, "", "", TRUE, FALSE, <<Nn>>, <<"/">>) EXCEPT !.Skips = <<Nx>>]
    /\ tree \in ReadTrees
    /\ fnIn \in ReadPaths(source, tree)
    /\ target = "none" /\ stack = <<>> /\ calls = <<>> /\ newErr = "" /\ result = "none"
    /\ fnOut = <<>>
    /\ store = <<>>

\* S3Backend.Read(prefix)
S3ReadNoIndexCall ==
    /\ phase = "read" /\ source = "s3"
    /\ fnOut' = S3ReadNoIndex(cfg, tree, fnIn)
    /\ phase' = "readDone"
    /\ UNCHANGED <<cfg, harness, tree, source, target, stack, calls, newErr, result, fnIn, store>>

NextS3Read == S3ReadNoIndexCall

SpecS3Read == InitS3Read /\ [][NextS3Read]_vars

----------------------------------------------------------------------------
(* minifyHTML *)

MaxHtmlLen == 5

\* strings.ReplaceAll for a non-empty old: the matches are taken left to right, without overlap
RECURSIVE ReplaceAll(_, _, _)
ReplaceAll(s, old, new) ==
    IF s = <<>> THEN <<>>
    ELSE IF HasPrefix(s, old) THEN new \o ReplaceAll(SubSeq(s, Len(old) + 1, Len(s)), old, new)
    ELSE <<Head(s)>> \o ReplaceAll(Tail(s), old, new)

\* a minifier that closes the gaps between tags before it drops the double spaces
minifyHTMLTagsFirst(str) ==
    LET s1 == ReplaceAll(str, <<"\n">>, <<>>)
        s2 == ReplaceAll(s1, <<"\t">>, <<>>)
        s3 == ReplaceAll(s2, <<">", " ", "<">>, <<">", "<">>)
    IN ReplaceAll(s3, <<" ", " ">>, <<>>)

minifyHTML(str) ==
    LET s1 == ReplaceAll(str, <<"\n">>, <<>>)
        s2 == ReplaceAll(s1, <<"\t">>, <<>>)
        s3 == ReplaceAll(s2, <<" ", " ">>, <<>>)
    IN ReplaceAll(s3, <<">", " ", "<">>, <<">", "<">>)

HtmlChars == { ">", "<", " ", "\n", "\t", "a" }

HtmlStrings == UNION { [1..n -> HtmlChars] : n \in 0..MaxHtmlLen }

InitMinify ==
    /\ harness = "minify" /\ phase = "minify" /\ Idle
    /\ cfg = Config(<<>>, <<>>, "", "", TRUE, FALSE, <<>>, <<>>)
    /\ fnIn \in HtmlStrings
    /\ fnOut = <<>>
    /\ store = <<>>

\* minifyHTML(str)
MinifyCall ==
    /\ phase = "minify"
    /\ fnOut' = minifyHTML(fnIn)
    /\ phase' = "minified"
    /\ UNCHANGED <<cfg, harness, tree, source, target, stack, calls, newErr, result, fnIn, store>>

NextMinify == MinifyCall

SpecMinify == InitMinify /\ [][NextMinify]_vars

----------------------------------------------------------------------------
(* two runs with the target directory equal to the source directory *)

MaxTwiceEntries == 3

\* a source tree with files, a directory below a directory named like the
\* source, and an index file of an earlier run
TwiceUniverse ==
    { Entry(<<Nf>>, FALSE, 4, 3),
      Entry(<<Ni>>, FALSE, 12, 2),
      Entry(<<Na>>, TRUE, 2048, 5),
      Entry(<<Na, Nf>>, FALSE, 7, 12),
      Entry(<<Na, Nb>>, TRUE, 2048, 6),
      Entry(<<Na, Nb, Nf>>, FALSE, 3, 7) }

TwiceTrees == { t \in SUBSET TwiceUniverse : Cardinality(t) <= MaxTwiceEntries /\ WellFormed(t) }

\* the directory tree of the source as the operating system holds it
StoreOf(root, t) ==
    Store({ AbsPath(root, d) : d \in DirsOf(t) },
          { File(AbsPath(root, e.path), [k \in 1..e.size |-> "x"]) : e \in { x \in t : ~x.isDir } })

\* the time of the run, later than every entry of the tree
WriteTime == 20

\* the entries below root after a write: what was there and is unchanged,
\* and the directories and files the write made or rewrote
TreeOf(root, t, st, written) ==
    LET below(p) == HasPrefix(p, root \o <<"/">>)
        rel(p) == Elements(TrimPrefix(p, root))
        kept == { e \in t : AbsPath(root, e.path) # written }
    IN kept
       \cup { Entry(rel(p), TRUE, 2048, WriteTime) :
                 p \in { q \in st.dirs : below(q) /\ rel(q) \notin DirsOf(t) } }
       \cup { Entry(rel(f.path), FALSE, Len(f.content), WriteTime) :
                 f \in { g \in st.files : g.path = written /\ below(g.path) } }

InitTwice ==
    /\ harness = "main"
    /\ tree \in TwiceTrees
    /\ \E dirsFirst \in BOOLEAN :
          cfg = setupBackends(Config(SourceDir, SourceDir, "name", "asc", TRUE, dirsFirst, <<Nn>>, <<>>))
    /\ store = StoreOf(cfg.Source, tree)
    /\ phase = "ready" /\ source = "local" /\ target = "local"
    /\ stack = <<>> /\ calls = <<>> /\ newErr = "" /\ result = "none"
    /\ fnIn = 1
    /\ fnOut = <<>>

\* Target.Write on a local target that is the source directory
GenWriteInPlace ==
    /\ phase = "running" /\ stack # <<>> /\ Top.pc = "write" /\ target = "local"
    /\ \E fail \in {"", "MkdirAll", "Create", "WriteString"} :
          LET r == LocalWrite(cfg, store, Top.data, <<"h">>, fail)
          IN /\ store' = r.store
             /\ tree' = TreeOf(cfg.Source, tree, r.store, Join(LocalPath(cfg, Top.data), cfg.IndexFile))
             /\ calls' = Append(calls, Call("Write", Top.path, Top.rel, Top.data.RelativePath, Top.data.Items,
                                            FALSE, ~r.err))
             /\ stack' = SetTop(IF ~r.err THEN [Top EXCEPT !.pc = NextStep("write", Top.items)]
                                ELSE Return(Top, TRUE))
    /\ UNCHANGED <<cfg, harness, phase, source, target, newErr, result, fnIn, fnOut>>

\* the command is run a second time after a run that returned nil
RunAgain ==
    /\ phase = "exit" /\ result = "nil" /\ fnIn = 1
    /\ fnIn' = 2
    /\ fnOut' = calls
    /\ calls' = <<>>
    /\ result' = "none"
    /\ phase' = "ready"
    /\ UNCHANGED <<cfg, harness, tree, source, target, stack, newErr, store>>

NextTwice ==
    \/ GenerateCall
    \/ GenRead
    \/ GenEnsure
    \/ GenTemplate
    \/ GenWriteInPlace
    \/ GenRecurse
    \/ GenReturn
    \/ RunAgain

SpecTwice == InitTwice /\ [][NextTwice]_vars

----------------------------------------------------------------------------
(* vocabulary of the properties *)

\* rel lies in the subtree of directory d (d itself included)
Under(rel, d) == Len(d) <= Len(rel) /\ SubSeq(rel, 1, Len(d)) = d

RECURSIVE SlashPath(_)
SlashPath(rel) == IF rel = <<>> THEN <<>> ELSE SlashPath(Front(rel)) \o <<"/">> \o Last(rel)

\* the path of directory rel relative to the root of the traversal, written with a leading slash
RelString(rel) == IF rel = <<>> THEN <<"/">> ELSE SlashPath(rel)

CallIdx == 1..Len(calls)

Failed == \E k \in CallIdx : ~calls[k].ok

ItemNames(items) == { items[k].Name : k \in 1..Len(items) }

DirItemNames(items) == { items[k].Name : k \in { j \in 1..Len(items) : items[j].IsDir } }

\* the directories of the tree that directly contain a non-directory entry named in noIndexFiles
MarkedDirs ==
    { d \in DirsOf(tree) :
        \E e \in tree : /\ ~e.isDir
                        /\ Len(e.path) = Len(d) + 1 /\ Front(e.path) = d
                        /\ contains(cfg.NoIndexFiles, Last(e.path)) }

\* the marked directories and everything below them
ExcludedDirs == { d \in DirsOf(tree) : \E m \in MarkedDirs : Under(d, m) }

----------------------------------------------------------------------------
(* C1 *)

\* C1: over a local source tree, Generate never calls EnsureDirExists or
\* Write for a directory that holds a noindex marker or lies below one, and
\* no index it writes lists such a directory among its items.
C1_NoIndexInvisible ==
    source = "local" =>
        \A k \in CallIdx :
            /\ calls[k].op \in {"EnsureDirExists", "Write"} =>
                  /\ calls[k].rel \notin ExcludedDirs
                  /\ \A d \in ExcludedDirs : calls[k].arg # RelString(d)
            /\ calls[k].op = "Write" =>
                  \A n \in DirItemNames(calls[k].items) : Append(calls[k].rel, n) \notin ExcludedDirs

\* a finished recursive run over a tree whose directory a holds a marker and a subdirectory, with the root index written
C1_Witness ==
    /\ source = "local" /\ result = "nil" /\ cfg.Recursive
    /\ <<Na>> \in MarkedDirs /\ <<Na, Na>> \in ExcludedDirs
    /\ \E k \in CallIdx : calls[k].op = "Write" /\ calls[k].rel = <<>>

----------------------------------------------------------------------------
(* C2 *)

\* the entries of directory d of the tree
EntriesOf(d) == { e \in tree : Len(e.path) = Len(d) + 1 /\ Front(e.path) = d }

Listed(e) == ~shouldSkip(Last(e.path), cfg.IndexFile, cfg.Skips) /\ ~(e.isDir /\ e.path \in MarkedDirs)

ReadOf(d) == LocalRead(cfg, tree, AbsPath(cfg.Source, d))

\* Read on a marked directory
C2_MarkedRead(d) == ReadOf(d) = ReadResult(<<>>, TRUE, FALSE)

\* Read on the parent of a marked directory d: the directory is left out, the other listed entries are there
C2_ParentRead(d) ==
    LET r == ReadOf(Front(d)) IN
    /\ ~r.skip /\ ~r.err
    /\ Last(d) \notin ItemNames(r.items)
    /\ \A e \in EntriesOf(Front(d)) : (e.path # d /\ Listed(e)) => Last(e.path) \in ItemNames(r.items)

\* C2 as stated: Read on a directory holding a marker returns (no items,
\* true, nil), and Read on its parent returns skipEntirely=false and a list
\* without that directory but with the parent's other entries.
C2_Original ==
    source = "local" =>
        \A d \in MarkedDirs :
            /\ C2_MarkedRead(d)
            /\ d # <<>> => C2_ParentRead(d)

\* C2 amended: the statement about the parent holds when the parent does
\* not itself hold a marker; a parent that does returns (no items, true, nil).
C2_MarkedAndParent ==
    source = "local" =>
        \A d \in MarkedDirs :
            /\ C2_MarkedRead(d)
            /\ d # <<>> =>
                  IF Front(d) \in MarkedDirs THEN C2_MarkedRead(Front(d)) ELSE C2_ParentRead(d)

\* Generate has read the root, which holds a file and the marked directory a
C2_Witness ==
    /\ source = "local"
    /\ <<Na>> \in MarkedDirs /\ <<>> \notin MarkedDirs
    /\ \E e \in tree : e.path = <<Nf>>
    /\ \E k \in CallIdx : /\ calls[k].op = "Read" /\ calls[k].rel = <<>> /\ calls[k].ok
                          /\ ItemNames(calls[k].items) = {Nf}

----------------------------------------------------------------------------
(* C3 *)

\* the Read calls that answered skipEntirely=true without error
SkippedReads == { k \in CallIdx : calls[k].op = "Read" /\ calls[k].ok /\ calls[k].skip }

\* C3: after Read(path) answers skipEntirely=true, Generate(path) issues no
\* EnsureDirExists, no Write, starts no recursive Generate and returns nil,
\* whatever items came with the flag.
C3_SkipReturnsAtOnce ==
    \A k \in SkippedReads :
        /\ \A j \in CallIdx : j # k => ~Under(calls[j].rel, calls[k].rel)
        /\ \A f \in 1..Len(stack) :
              Under(stack[f].rel, calls[k].rel) =>
                  stack[f].rel = calls[k].rel /\ stack[f].pc = "ret" /\ ~stack[f].err
        /\ (Len(calls) = 1 /\ phase = "exit") => result = "nil"

\* a mock source answered skipEntirely=true together with items, one of them a directory, and the run returned nil
C3_Witness ==
    /\ result = "nil" /\ cfg.Recursive
    /\ \E k \in SkippedReads : DirItemNames(calls[k].items) # {}

----------------------------------------------------------------------------
(* C4 *)

\* the Read calls that answered an empty list, skipEntirely=false and no error
EmptyReads == { k \in CallIdx : calls[k].op = "Read" /\ calls[k].ok /\ ~calls[k].skip /\ calls[k].items = <<>> }

OpsFor(op, rel) == { j \in CallIdx : calls[j].op = op /\ calls[j].rel = rel }

\* Generate never renders nor writes for an emptily read directory and calls EnsureDirExists at most once
C4_NoRenderNoWrite(k) ==
    /\ OpsFor("Write", calls[k].rel) = {}
    /\ OpsFor("Render", calls[k].rel) = {}
    /\ Cardinality(OpsFor("EnsureDirExists", calls[k].rel)) <= 1

\* the activation of Generate for call k has returned error e (TRUE) or nil (FALSE)
ReturnedWith(k, e) ==
    \/ \E f \in 1..Len(stack) : stack[f].rel = calls[k].rel /\ stack[f].pc = "ret" /\ stack[f].err = e
    \/ calls[k].rel = <<>> /\ phase = "exit" /\ result = (IF e THEN "err" ELSE "nil")

Returning(k) == ReturnedWith(k, TRUE) \/ ReturnedWith(k, FALSE)

\* C4 as stated: when Read answers an empty list with skipEntirely=false
\* and no error, Generate calls EnsureDirExists exactly once, never Write,
\* renders no template, and returns nil.
C4_Original ==
    \A k \in EmptyReads :
        /\ C4_NoRenderNoWrite(k)
        /\ Returning(k) =>
              /\ Cardinality(OpsFor("EnsureDirExists", calls[k].rel)) = 1
              /\ ReturnedWith(k, FALSE)

\* C4 amended: ... and returns nil when that EnsureDirExists call succeeds;
\* when it fails Generate returns the error.
C4_EmptyNoWrite ==
    \A k \in EmptyReads :
        /\ C4_NoRenderNoWrite(k)
        /\ Returning(k) =>
              /\ Cardinality(OpsFor("EnsureDirExists", calls[k].rel)) = 1
              /\ \A j \in OpsFor("EnsureDirExists", calls[k].rel) : ReturnedWith(k, ~calls[j].ok)

\* a finished run that read an empty subdirectory and made its target directory
C4_Witness ==
    /\ result = "nil"
    /\ \E k \in EmptyReads :
          /\ calls[k].rel # <<>>
          /\ \E j \in OpsFor("EnsureDirExists", calls[k].rel) : calls[j].ok

----------------------------------------------------------------------------
(* C5 *)

Finished == phase = "exit" /\ result # "none"

\* Read, EnsureDirExists and Write all succeeded
BackendOK == \A k \in CallIdx : calls[k].op \in {"Read", "EnsureDirExists", "Write"} => calls[k].ok

ReadCalls == { k \in CallIdx : calls[k].op = "Read" }

Visited == { calls[k].rel : k \in ReadCalls }

\* the root and, in recursive mode, every directory item of a visited, non-skipped directory
Reachable ==
    {<<>>} \cup
    (IF cfg.Recursive
     THEN UNION { { Append(calls[k].rel, n) : n \in DirItemNames(calls[k].items) } :
                   k \in { j \in ReadCalls : ~calls[j].skip } }
     ELSE {})

C5_Body ==
    /\ \A k \in ReadCalls :
          IF ~calls[k].skip /\ calls[k].items # <<>>
          THEN /\ Cardinality(OpsFor("Write", calls[k].rel)) = 1
               /\ \A j \in OpsFor("Write", calls[k].rel) : calls[j].arg = RelString(calls[k].rel)
          ELSE OpsFor("Write", calls[k].rel) = {}
    /\ \A j \in CallIdx : calls[j].op = "Write" => calls[j].rel \in Visited
    /\ Visited = Reachable
    /\ ~cfg.Recursive => Visited = {<<>>}

\* C5 as stated: with all backend operations succeeding, Generate(BasePath)
\* writes exactly once for every visited directory whose Read is non-skipped
\* and non-empty, with that directory's relative path, and for no other; the
\* visited directories are the root and, in recursive mode only, every
\* directory reachable through directory items.
C5_Original ==
    (Finished /\ BackendOK /\ StartPath = cfg.BasePath) => C5_Body

\* C5 amended: ... with all backend operations succeeding and every
\* template loaded and rendered without error ...
C5_OneWritePerDirectory ==
    (Finished /\ ~Failed /\ StartPath = cfg.BasePath) => C5_Body

\* a finished recursive run without failure that wrote the index of the root and of a subdirectory
C5_Witness ==
    /\ Finished /\ ~Failed /\ StartPath = cfg.BasePath /\ cfg.Recursive
    /\ OpsFor("Write", <<>>) # {}
    /\ \E j \in OpsFor("Write", <<Na>>) : calls[j].arg = <<"/", "a">>

----------------------------------------------------------------------------
(* C6 *)

Rank(op) == CASE op = "Read" -> 1 [] op = "EnsureDirExists" -> 2 [] op = "Render" -> 3 [] OTHER -> 4

\* C6: the operations of a directory come in the order Read,
\* EnsureDirExists, Write, then the subtrees of its children one after
\* another; EnsureDirExists precedes the directory's Write and the Read of
\* any child, and is called for a directory without items too.
C6_SequentialOrder ==
    /\ \A i, j \in CallIdx :
          (i < j /\ calls[i].rel = calls[j].rel) => Rank(calls[i].op) < Rank(calls[j].op)
    /\ \A j \in CallIdx :
          /\ calls[j].op # "Read" =>
                \E i \in 1..(j - 1) : calls[i].op = "Read" /\ calls[i].rel = calls[j].rel /\ calls[i].ok
          /\ calls[j].op \in {"Render", "Write"} =>
                \E i \in 1..(j - 1) : calls[i].op = "EnsureDirExists" /\ calls[i].rel = calls[j].rel /\ calls[i].ok
          /\ calls[j].rel # <<>> =>
                /\ \E i \in 1..(j - 1) : /\ calls[i].op = "EnsureDirExists" /\ calls[i].ok
                                         /\ calls[i].rel = Front(calls[j].rel)
                /\ \E i \in 1..(j - 1) : /\ calls[i].op = "Write" /\ calls[i].ok
                                         /\ calls[i].rel = Front(calls[j].rel)
    /\ \A i, j, k \in CallIdx :
          (i < j /\ j < k) =>
              \A n \in 1..Len(calls[i].rel) :
                  LET c == SubSeq(calls[i].rel, 1, n) IN
                  Under(calls[k].rel, c) => Under(calls[j].rel, c)
    /\ \A k \in ReadCalls :
          (calls[k].ok /\ ~calls[k].skip) =>
              \/ OpsFor("EnsureDirExists", calls[k].rel) # {}
              \/ \E f \in 1..Len(stack) : stack[f].rel = calls[k].rel /\ stack[f].pc = "ensure"

\* a finished run over two subdirectories, each with its index written after the root's
C6_Witness ==
    /\ result = "nil"
    /\ OpsFor("Write", <<Na>>) # {} /\ OpsFor("Write", <<Nb>>) # {}

----------------------------------------------------------------------------
(* C7 *)

\* C7: once an operation has failed nothing further is issued, in that
\* directory, its siblings or the remaining children of any ancestor; the
\* top-level Generate returns an error; what was written stays.
C7_ErrorAborts ==
    /\ \A k \in CallIdx : ~calls[k].ok => k = Len(calls)
    /\ Failed =>
          /\ result # "nil"
          /\ phase = "exit" => result = "err"
          /\ \A f \in 1..Len(stack) : stack[f].pc \in {"ret", "wait"}
          /\ stack # <<>> => (Top.pc = "ret" /\ Top.err)

\* a run that wrote the root index, failed inside the first subdirectory and returned an error with the second one unvisited
C7_Witness ==
    /\ result = "err"
    /\ \E k \in CallIdx : calls[k].op = "Write" /\ calls[k].ok /\ calls[k].rel = <<>>
                          /\ DirItemNames(calls[k].items) = {Na, Nb}
    /\ ~calls[Len(calls)].ok /\ calls[Len(calls)].rel = <<Na>>
    /\ \A k \in CallIdx : calls[k].rel # <<Nb>>

----------------------------------------------------------------------------
(* C8 *)

ValidSortBy == {"last_modified", "name", "natural_name"}

ValidOrder == {"asc", "desc"}

\* the error of the first failing check, in the order source, target, sort_by, order
FirstFailingCheck(c) ==
    CASE c.Source = <<>>            -> "source is required"
      [] c.Target = <<>>            -> "target is required"
      [] c.SortBy \notin ValidSortBy -> "sort_by must be one of: last_modified, name, natural_name"
      [] c.Order \notin ValidOrder   -> "order must be one of: asc, desc"
      [] OTHER                      -> ""

\* C8: Validate fails exactly when source or target is empty or sort_by or
\* order is not a recognised value, with the error of the first failing
\* check; New returns that error with no backend set up and no traversal.
C8_ValidateAndNew ==
    harness = "main" =>
        /\ (Validate(cfg) # "") <=>
              (cfg.Source = <<>> \/ cfg.Target = <<>> \/ cfg.SortBy \notin ValidSortBy \/ cfg.Order \notin ValidOrder)
        /\ Validate(cfg) = FirstFailingCheck(cfg)
        /\ phase # "new" => newErr = FirstFailingCheck(cfg)
        /\ (phase # "new" /\ FirstFailingCheck(cfg) # "") =>
              /\ phase = "exit" /\ source = "none" /\ target = "none"
              /\ stack = <<>> /\ calls = <<>> /\ result = "none"
        /\ (phase # "new" /\ FirstFailingCheck(cfg) = "") => (source = "local" /\ target = "set")

\* New has rejected a configuration whose only fault is its order
C8_Witness ==
    /\ harness = "main" /\ phase = "exit"
    /\ cfg.Source # <<>> /\ cfg.Target # <<>> /\ cfg.SortBy \in ValidSortBy
    /\ newErr = "order must be one of: asc, desc"

----------------------------------------------------------------------------
(* C9 *)

\* C9 as stated: sort_by "name_natural" is a valid value, and the
\* documented default configuration (sort_by name_natural, order asc,
\* source and target given) passes validation and sorts by natural name.
C9_DocumentedDefault ==
    (/\ harness = "main" /\ phase # "new"
     /\ cfg.Source # <<>> /\ cfg.Target # <<>>
     /\ cfg.SortBy = "name_natural" /\ cfg.Order = "asc") =>
        /\ newErr = ""
        /\ SortByValue(cfg) = "natural_name"

----------------------------------------------------------------------------
(* C10 *)

BeginsWithSlash(s) == s # <<>> /\ s[1] = "/"

\* C10: the RelativePath of every view model, the value handed to
\* EnsureDirExists and carried in the data handed to Write, begins with "/".
C10_RelativePathSlash ==
    /\ \A k \in CallIdx : calls[k].op \in {"EnsureDirExists", "Render", "Write"} => BeginsWithSlash(calls[k].arg)
    /\ \A f \in 1..Len(stack) :
          stack[f].pc \notin {"read", "ret"} =>
              /\ BeginsWithSlash(stack[f].data.RelativePath)
              /\ stack[f].data.RelativePath = RelativePath(cfg, stack[f].path)

\* the view model of the root and of a subdirectory have both been handed to Write
C10_Witness ==
    /\ \E k \in OpsFor("Write", <<>>) : calls[k].arg = <<"/">>
    /\ \E k \in OpsFor("Write", <<Na>>) : BeginsWithSlash(calls[k].arg) /\ Len(calls[k].arg) > 1

----------------------------------------------------------------------------
(* C11 *)

DataBuilt == phase = "dataBuilt"

\* C11 as stated: HasParent of a view model is false exactly when its path
\* is the base path.
C11_Original ==
    DataBuilt => (fnOut.HasParent = FALSE <=> fnIn.path = cfg.BasePath)

\* C11: HasParent of a view model is false exactly when its path is the base
\* path or is its own filepath.Dir ("/" and "."); every subdirectory reached in
\* a traversal started at the base path has HasParent true.
C11_HasParent ==
    DataBuilt =>
        /\ fnOut.HasParent = FALSE <=> (fnIn.path = cfg.BasePath \/ Dir(fnIn.path) = fnIn.path)
        /\ (fnIn.fromBase /\ fnIn.depth > 0) => fnOut.HasParent

\* the view model of a subdirectory two levels below the base path has been built
C11_Witness ==
    DataBuilt /\ fnIn.fromBase /\ fnIn.depth = 2 /\ fnIn.path # cfg.BasePath /\ fnOut.HasParent

----------------------------------------------------------------------------
(* C12 *)

Sorted == phase = "sorted"

IsDirItem(x) == x.IsDir

IsFileItem(x) == ~x.IsDir

\* the list as the stages of sort before orderDirsFirst leave it
Staged == sort([cfg EXCEPT !.DirsFirst = FALSE], fnIn)

\* C12: after sort with dirsFirst=true every directory item precedes every
\* file item, and the directories among themselves and the files among
\* themselves stand in the order the preceding sort stages produced.
C12_DirsFirstStable ==
    (Sorted /\ cfg.DirsFirst) =>
        /\ \A j, k \in 1..Len(fnOut) : (fnOut[j].IsDir /\ ~fnOut[k].IsDir) => j < k
        /\ SelectSeq(fnOut, IsDirItem) = SelectSeq(Staged, IsDirItem)
        /\ SelectSeq(fnOut, IsFileItem) = SelectSeq(Staged, IsFileItem)

\* two directories and a file were sorted, the file standing between the
\* directories after the stages before orderDirsFirst
C12_Witness ==
    /\ Sorted /\ cfg.DirsFirst /\ Len(fnOut) = 3
    /\ Staged[1].IsDir /\ ~Staged[2].IsDir /\ Staged[3].IsDir
    /\ fnOut = <<Staged[1], Staged[3], Staged[2]>>

----------------------------------------------------------------------------
(* C13 *)

\* position of an item in a list of distinct items
PosIn(l, x) == CHOOSE k \in 1..Len(l) : l[k] = x

SameItems(l, m) == Len(l) = Len(m) /\ { l[k] : k \in 1..Len(l) } = { m[k] : k \in 1..Len(m) }

\* x must stand before y under the sortBy key
Before(sortBy, x, y) ==
    CASE sortBy = "last_modified" -> StrLess(y.LastModified, x.LastModified)
      [] sortBy = "name"          -> StrLess(x.Name, y.Name)
      [] sortBy = "natural_name"  -> cmpNatural(x.Name, y.Name)

\* C13: with order=asc and dirsFirst=false the sorted list holds the items
\* of the input, no item stands after one it must precede under the sortBy
\* key (LastModified non-increasing as strings, Name non-decreasing
\* bytewise, the natural comparator), and items that tie under the key keep
\* their input order.
C13_AscendingByKey ==
    (Sorted /\ cfg.Order = "asc" /\ ~cfg.DirsFirst) =>
        /\ SameItems(fnIn, fnOut)
        /\ \A j, k \in 1..Len(fnOut) : j < k =>
              /\ ~Before(cfg.SortBy, fnOut[k], fnOut[j])
              /\ ~Before(cfg.SortBy, fnOut[j], fnOut[k]) => PosIn(fnIn, fnOut[j]) < PosIn(fnIn, fnOut[k])

----------------------------------------------------------------------------
(* C14 *)

\* the key sort_by selects
Key(sortBy, x) == IF sortBy = "last_modified" THEN x.LastModified ELSE x.Name

KeysDistinct(sortBy, l) == \A j, k \in 1..Len(l) : j # k => Key(sortBy, l[j]) # Key(sortBy, l[k])

\* C14 as stated: with dirsFirst=false and items of distinct keys, the
\* order=desc result is the reverse of the order=asc result for the same
\* sort_by.
C14_DescReversesAsc ==
    (Sorted /\ cfg.Order = "desc" /\ ~cfg.DirsFirst /\ KeysDistinct(cfg.SortBy, fnIn)) =>
        fnOut = Reverse(sort([cfg EXCEPT !.Order = "asc"], fnIn))

----------------------------------------------------------------------------
(* C15 *)

----------------------------------------------------------------------------
(* C16 *)

Compared == phase = "compared"

\* the integer a name of digits denotes, as a decimal numeral without leading zeros
IntValue(name) == StripZeros(name)

\* C16 as stated: for two names made of digits only, cmpNatural(a, b) is
\* true exactly when the integer value of a is less than that of b.
C16_DigitsCompareAsIntegers ==
    (Compared /\ fnIn \in DigitNames \X DigitNames) =>
        (fnOut <=> NumLess(IntValue(fnIn[1]), IntValue(fnIn[2])))

----------------------------------------------------------------------------
(* C17 *)

ReadDone == phase = "readDone"

\* the directory of the tree the local Read was applied to
ReadDirOf == CHOOSE d \in DirsOf(tree) : AbsPath(SourceDir, d) = fnIn

\* C17 as stated, for the local backend: a Read that lists the directory
\* returns no entry named like the index file or a skip name, and returns
\* every other entry of the directory except the subdirectories that hold a
\* noindex marker.
C17_FilterExact ==
    (ReadDone /\ source = "local" /\ ~fnOut.skip /\ ~fnOut.err) =>
        LET kept == { e \in EntriesOf(ReadDirOf) :
                        /\ Last(e.path) # cfg.IndexFile
                        /\ ~contains(cfg.Skips, Last(e.path))
                        /\ ~(e.isDir /\ e.path \in MarkedDirs) }
        IN ItemNames(fnOut.items) = { Last(e.path) : e \in kept }

----------------------------------------------------------------------------
(* C18 *)

\* C18 as stated: in the items Read returns, of the local and of the S3
\* backend, every file item has Size and LastModified set and every
\* directory item has both empty.
C18_SizeAndDateForFilesOnly ==
    ReadDone =>
        \A k \in 1..Len(fnOut.items) :
            LET item == fnOut.items[k]
            IN IF item.IsDir THEN item.Size = <<>> /\ item.LastModified = <<>>
               ELSE item.Size # <<>> /\ item.LastModified # <<>>

----------------------------------------------------------------------------
(* C19 *)

\* the local Write just made returned nil
LocalWritten == harness = "write" /\ target = "local" /\ calls # <<>> /\ fnOut = FALSE

\* the relative path of the view model without the base path in front and
\* without its leading slash
Remainder == TrimPrefix(TrimPrefix(fnIn.data.RelativePath, cfg.BasePath), <<"/">>)

\* Target/<remainder>/<IndexFile>, Target/<IndexFile> for an empty remainder, as a clean path
IndexPath ==
    IF Remainder = <<>> THEN Clean(cfg.Target \o <<"/">> \o cfg.IndexFile)
    ELSE Clean(cfg.Target \o <<"/">> \o Remainder \o <<"/">> \o cfg.IndexFile)

\* C19: after a LocalBackend.Write(data, content) that returns nil, the
\* target holds a file at Target/<remainder>/<IndexFile>, the remainder
\* being data.RelativePath without the base path prefix and the leading
\* slash, every directory from the target directory down to the file's
\* exists, and the file holds exactly content, whatever it held before.
C19_LocalWriteRoundTrip ==
    LocalWritten =>
        /\ FileAt(store, IndexPath) = { File(IndexPath, fnIn.content) }
        /\ Ancestors(Dir(IndexPath)) \subseteq store.dirs
        /\ \A f, g \in store.files : f.path = g.path => f = g

\* two Writes to the same relative path of a subdirectory returned nil, the
\* second with a shorter content than the first
C19_Witness ==
    /\ LocalWritten /\ Len(calls) = 2
    /\ calls[1].ok /\ calls[1].arg.data.RelativePath = fnIn.data.RelativePath
    /\ Len(calls[1].arg.content) > Len(fnIn.content)
    /\ Remainder # <<>>
    /\ Join(TargetDir, Na) \in store.dirs

----------------------------------------------------------------------------
(* C20 *)

\* S3Backend.Write has just been called
S3Written == harness = "write" /\ target = "s3" /\ calls # <<>>

\* C20 as stated: the upload of S3Backend.Write(data, content) goes to the
\* bucket of the target, at the key made of the prefix of the target,
\* data.RelativePath and the index filename, as text/html in utf-8; so with
\* target s3://bucket/path the index of relative path R is stored under
\* path/R/, also when the source is the same s3://bucket/path.
C20_UploadKey ==
    S3Written =>
        LET input == calls[Len(calls)].arg
            bucketAndPrefix == uriToBucketAndPrefix(cfg.Target)
        IN /\ input.Bucket = bucketAndPrefix[1]
           /\ input.Key = Join(Join(bucketAndPrefix[2], fnIn.data.RelativePath), cfg.IndexFile)
           /\ input.Body = fnIn.content
           /\ input.ContentType = "text/html"
           /\ input.ContentEncoding = "utf-8"

----------------------------------------------------------------------------
(* C21 *)

\* the prefix the listing of S3Backend.Read is scoped to
ListedPrefix ==
    LET slashed == IF ~HasSuffix(fnIn, <<"/">>) THEN fnIn \o <<"/">> ELSE fnIn
    IN TrimPrefix(slashed, <<"/">>)

\* the keys of the objects right under a prefix
DirectKeys(prefix) ==
    { o.key : o \in { x \in Objects(tree) : HasPrefix(x.key, prefix) /\ FirstSlash(TrimPrefix(x.key, prefix), 1) = 0 } }

\* the common prefixes of the objects further down
SubPrefixes(prefix) ==
    { prefix \o SubSeq(TrimPrefix(o.key, prefix), 1, FirstSlash(TrimPrefix(o.key, prefix), 1)) :
        o \in { x \in Objects(tree) : HasPrefix(x.key, prefix) /\ FirstSlash(TrimPrefix(x.key, prefix), 1) # 0 } }

MarkerUnder(prefix) == \E k \in DirectKeys(prefix) : contains(cfg.NoIndexFiles, Base(k))

FileItemNames(items) == { items[k].Name : k \in { j \in 1..Len(items) : ~items[j].IsDir } }

\* what C21 says of a Read: skip exactly when the listing holds a marker, and
\* otherwise the common prefixes without a marker of their own as directory
\* items and the objects of the set listed as file items
C21_Body(listed) ==
    /\ ~fnOut.err
    /\ fnOut.skip = MarkerUnder(ListedPrefix)
    /\ fnOut.skip => fnOut.items = <<>>
    /\ ~fnOut.skip =>
          /\ FileItemNames(fnOut.items) = { Base(k) : k \in listed }
          /\ DirItemNames(fnOut.items) =
                { TrimPrefix(cp, ListedPrefix) : cp \in { x \in SubPrefixes(ListedPrefix) : ~MarkerUnder(x) } }
          /\ Len(fnOut.items) = Cardinality(FileItemNames(fnOut.items)) + Cardinality(DirItemNames(fnOut.items))

----------------------------------------------------------------------------
(* C22 *)

\* the item of the view model built from item k of the listing
Shown(k) == CHOOSE it \in { fnOut.Items[j] : j \in 1..Len(fnOut.Items) } : it.Name = fnIn.items[k].Name

\* the joined URL of an item, or its bare name without a base URL
Joined(name) ==
    IF cfg.BaseURL = <<>> THEN name
    ELSE joinURL(cfg.BaseURL, <<RelativePath(cfg, fnIn.path), name>>)

\* C22: an item's URL is its bare name without a base URL and
\* join(baseURL, relative path, name) with one; a file's URL is exactly
\* that; a directory's URL is that with its trailing slashes replaced by
\* exactly one slash, followed by the index filename if and only if
\* linkToIndexes is set.
C22_ItemURL ==
    DataBuilt =>
        \A k \in 1..Len(fnIn.items) :
            LET it == Shown(k)
                tail == IF cfg.LinkToIndexes THEN <<"/">> \o cfg.IndexFile ELSE <<"/">>
                stem == SubSeq(it.URL, 1, Len(it.URL) - Len(tail))
            IN IF ~it.IsDir THEN it.URL = Joined(it.Name)
               ELSE /\ HasSuffix(it.URL, tail)
                    /\ ~HasSuffix(stem, <<"/">>)
                    /\ stem = TrimSuffix(Joined(it.Name), <<"/">>)
                    /\ ~cfg.LinkToIndexes => ~HasSuffix(it.URL, cfg.IndexFile)

\* a listing below a site's directory, linked to indexes: the directory b/
\* got one slash and the index filename, the file f 2 its escaped name
C22_Witness ==
    /\ DataBuilt /\ cfg.LinkToIndexes /\ cfg.BaseURL = <<"h", ":", "/", "/", "e", "/", "u", "/">>
    /\ fnIn.path = <<"/", "a", "/", "b">> /\ cfg.BasePath = <<"/", "a">>
    /\ \E k \in 1..Len(fnOut.Items) :
          fnOut.Items[k].URL = <<"h", ":", "/", "/", "e", "/", "u", "/", "b", "/", "b", "/", "i">>
    /\ \E k \in 1..Len(fnOut.Items) :
          fnOut.Items[k].URL = <<"h", ":", "/", "/", "e", "/", "u", "/", "b", "/", "f", "%", "2", "0", "2">>

----------------------------------------------------------------------------
(* C24 *)

\* C24: with linkToIndexes set, the Parent link of a directory other than
\* the base path is join(baseURL, relative parent path), a slash and the
\* index filename, which for a parent below the base path is the URL
\* resolveItemURL gives that parent as a directory item of its own parent.
C24_ParentLink ==
    (DataBuilt /\ cfg.LinkToIndexes /\ fnIn.path # cfg.BasePath) =>
        LET parent == Dir(fnIn.path)
            relativeParent == RelativePath(cfg, parent)
        IN /\ fnOut.Parent = TrimSuffix(joinURL(cfg.BaseURL, <<relativeParent>>), <<"/">>)
                                \o <<"/">> \o cfg.IndexFile
           /\ (cfg.BaseURL # <<>> /\ relativeParent # <<"/">>) =>
                 fnOut.Parent = resolveItemURL(cfg.BaseURL, RelativePath(cfg, Dir(parent)), Base(parent),
                                               TRUE, TRUE, cfg.IndexFile)

----------------------------------------------------------------------------
(* C23 *)

Minified == phase = "minified"

Occurs(s, sub) == \E k \in 1..Len(s) : HasPrefix(SubSeq(s, k, Len(s)), sub)

\* C23: the output of minifyHTML holds no newline and no "> <".
C23_NoNewlineNoGap ==
    Minified => ~Occurs(fnOut, <<"\n">>) /\ ~Occurs(fnOut, <<">", " ", "<">>)

\* three spaces between two tags: the double space goes first, the gap that is left after it
C23_Witness ==
    /\ Minified /\ fnIn = <<">", " ", " ", " ", "<">> /\ fnOut = <<">", "<">>

----------------------------------------------------------------------------
(* C25 *)

\* the directory LocalBackend.Write puts the index of Write call k in
WrittenAt(k) == LocalPath(cfg, [RelativePath |-> calls[k].arg])

\* C25: within one run the Write calls for distinct directories go to
\* distinct locations of the local target.
C25_DistinctLocations ==
    harness = "main" =>
        \A j, k \in CallIdx :
            (calls[j].op = "Write" /\ calls[k].op = "Write" /\ calls[j].dir # calls[k].dir)
                => WrittenAt(j) # WrittenAt(k)

----------------------------------------------------------------------------
(* C26 *)

\* the directories that directory items of written indexes link to
LinkedDirs ==
    UNION { { Append(calls[j].rel, n) : n \in DirItemNames(calls[j].items) } :
              j \in { k \in CallIdx : calls[k].op = "Write" } }

\* C26 as stated: in a recursive run whose backend operations all
\* succeed, every directory item of a written index has an index of its
\* own written in the same run.
C26_Original ==
    (Finished /\ BackendOK /\ cfg.Recursive /\ StartPath = cfg.BasePath) =>
        \A sub \in LinkedDirs : OpsFor("Write", sub) # {}

\* C26 amended: in a recursive run whose backend operations all succeed
\* and whose templates all render, every directory item of a written
\* index was read in the same run, and has an index of its own written in
\* that run unless its Read reported skipEntirely or returned no item.
C26_LinkedDirsIndexed ==
    (Finished /\ ~Failed /\ cfg.Recursive /\ StartPath = cfg.BasePath) =>
        \A sub \in LinkedDirs :
            /\ OpsFor("Read", sub) # {}
            /\ \A r \in OpsFor("Read", sub) :
                  (~calls[r].skip /\ calls[r].items # <<>>) => OpsFor("Write", sub) # {}

\* a finished run whose root index links to a directory with an index of
\* its own and to an empty directory, which has none
C26_Witness ==
    /\ Finished /\ ~Failed /\ cfg.Recursive /\ harness = "main"
    /\ { <<Na>>, <<Nb>> } \subseteq LinkedDirs
    /\ OpsFor("Write", <<Na>>) # {} /\ OpsFor("Write", <<Nb>>) = {}
    /\ \E r \in OpsFor("Read", <<Nb>>) : calls[r].items = <<>> /\ ~calls[r].skip

----------------------------------------------------------------------------
(* C27 *)

\* neither name goes before the other
Tie(a, b) == ~cmpNatural(a, b) /\ ~cmpNatural(b, a)

\* C27: cmpNatural is a strict weak ordering: irreflexive, asymmetric and
\* transitive, with a transitive relation "neither before the other",
\* leading zeros included.
C27_StrictWeakOrder ==
    Compared =>
        LET a == fnIn[1]
            b == fnIn[2]
        IN /\ a = b => ~fnOut
           /\ fnOut => ~cmpNatural(b, a)
           /\ \A c \in DigitNames \cup NaturalNames :
                 /\ (fnOut /\ cmpNatural(b, c)) => cmpNatural(a, c)
                 /\ (Tie(a, b) /\ Tie(b, c)) => Tie(a, c)

----------------------------------------------------------------------------
(* C28 *)

\* an item as Read returned it: the URL not yet set
Unresolved(it) == [it EXCEPT !.URL = <<>>]

\* C28: under every sort policy the Items of the view model are the items
\* Source.Read returned, each once, none added, with no field but URL
\* changed.
C28_ItemsPermuted ==
    DataBuilt =>
        /\ Len(fnOut.Items) = Len(fnIn.items)
        /\ \E perm \in [1..Len(fnIn.items) -> 1..Len(fnIn.items)] :
              /\ \A j, k \in 1..Len(fnIn.items) : j # k => perm[j] # perm[k]
              /\ \A k \in 1..Len(fnIn.items) : Unresolved(fnOut.Items[perm[k]]) = fnIn.items[k]

\* a listing of three items that came out in another order, its URLs resolved
C28_Witness ==
    /\ DataBuilt /\ Len(fnIn.items) = 3 /\ cfg.BaseURL # <<>> /\ cfg.DirsFirst
    /\ fnOut.Items[1].Name = fnIn.items[2].Name
    /\ \A k \in 1..3 : fnOut.Items[k].URL # <<>>

----------------------------------------------------------------------------
(* C29 *)

\* the directories a run wrote an index for, each with the names it listed
Indexes(log) ==
    { <<log[k].dir, ItemNames(log[k].items)>> : k \in { j \in 1..Len(log) : log[j].op = "Write" } }

\* C29: with the local target equal to the source, a second run lists no
\* index file of the first, and writes indexes for the same directories
\* with the same item names as the first.
C29_SecondRunSame ==
    (fnIn = 2 /\ Finished /\ ~Failed) =>
        /\ \A k \in ReadCalls : cfg.IndexFile \notin ItemNames(calls[k].items)
        /\ Indexes(calls) = Indexes(fnOut)

----------------------------------------------------------------------------
(* C30 *)

\* every directory of the tree outside the marked ones was read exactly
\* once, and no directory twice
ReadOnce ==
    /\ \A d \in DirsOf(tree) \ ExcludedDirs : Cardinality(OpsFor("Read", d)) = 1
    /\ \A d \in Visited : Cardinality(OpsFor("Read", d)) = 1

\* C30 as stated: a recursive run over a source tree whose backend
\* operations all succeed returns nil, having read every reachable
\* directory outside the excluded ones exactly once.
C30_Original ==
    (harness = "main" /\ Finished /\ BackendOK /\ cfg.Recursive) => (result = "nil" /\ ReadOnce)

\* C30 amended: a recursive run over a finite source tree terminates; when
\* its backend operations all succeed and its templates all render it
\* returns nil, having read every reachable directory outside the excluded
\* ones exactly once.
C30_TerminatesHavingReadAll ==
    /\ (harness = "main") => <>(phase = "exit")
    /\ []((harness = "main" /\ Finished /\ ~Failed /\ cfg.Recursive) => (result = "nil" /\ ReadOnce))

\* a run over a tree with a marked directory and one without a marker has
\* returned nil, having read the root and the unmarked directory
C30_Witness ==
    /\ harness = "main" /\ Finished /\ ~Failed /\ cfg.Recursive /\ result = "nil"
    /\ MarkedDirs = { <<Na>> } /\ Visited = { <<>>, <<Nb>> }
    /\ Len(calls) >= 8

====
